---------------------------- MODULE Spec2Model ----------------------------
(***************************************************************************)
(* A model of the storage and concurrency core of the BusTub-2021 tree:    *)
(* the LRU replacer, the buffer pool manager instance, the extendible hash *)
(* table with its directory and bucket pages, and the lock manager.        *)
(*                                                                         *)
(* Every operation of a component is a pure operator on a record holding   *)
(* that component's fields, written after its source; an action applies    *)
(* one operation to the variables.  The assertions of the source are those *)
(* of a build that keeps assert() (the tree's default Debug build): the    *)
(* unpin and delete calls of the hash table are written inside assert().   *)
(***************************************************************************)
EXTENDS Integers, Sequences, FiniteSets, TLC

(***************************************************************************)
(* Bounds of the model.                                                    *)
(***************************************************************************)
\* frames of the buffer pool instance (pool_size_) in SpecBPM
PoolSize == 2
\* pages one instance may allocate in SpecBPM (caps next_page_id_)
MaxPages == 3
\* cap on a page's pin count in SpecBPM
MaxPin == 2
\* distinct non-zero page contents a client writes in SpecBPM
MaxByte == 1
\* instances a parallel pool is made of in SpecBPI (num_instances_ is 1..MaxInstances)
MaxInstances == 2
\* capacity_ of the replacer in SpecLRU, whose callers name frames 0..MaxFrame
ReplacerCapacity == 3
MaxFrame == 3

\* slots of a bucket page (BUCKET_ARRAY_SIZE) in SpecHT
BUCKET_ARRAY_SIZE == 1
\* largest global depth the directory arrays hold: they have 2^MAX_DEPTH slots
MAX_DEPTH == 3
\* frames of the buffer pool under the hash table in SpecHT
HTPoolSize == 7
\* keys are 0..MaxKey, values 1..MaxValue in SpecHT
MaxKey == 5
MaxValue == 1

\* threads calling the hash table at once in SpecLatch and SpecRace
MaxThreads == 2
\* the keys the threads of SpecRace use are 0..MaxRaceKey
MaxRaceKey == 1

\* SpecEvict: frames of the pool the hash table shares with another client,
\* that client's pages 0..MaxOtherPage, and the keys 0..MaxEvictKey
EvictPoolSize == 3
MaxOtherPage == 1
MaxEvictKey == 1

\* SpecBucket: a bucket page of slots 0..MaxBucketSlot, called with the keys
\* 0..MaxBucketKey and the values 1..MaxBucketValue
MaxBucketSlot == 2
MaxBucketKey == 1
MaxBucketValue == 2

\* transaction ids are 0..MaxTxn, record ids 0..MaxRid in SpecLM
MaxTxn == 2
MaxRid == 0
\* SpecLM2: transactions 0..MaxTxn2 and rids 0..MaxRid2
MaxTxn2 == 1
MaxRid2 == 1

INVALID_PAGE_ID == -1
INVALID_TXN_ID == -1
\* a null Page pointer / no frame
NoFrame == -1

VARIABLES
  \* BufferPoolManagerInstance
  pages_,            \* frame -> [page_id, pin_count, is_dirty, data]
  free_list_,        \* std::list<frame_id_t>
  page_table_,       \* page id -> frame id, NoFrame when not mapped
  lru_list_,         \* the replacer's list; front = most recently unpinned
  next_page_id_,
  num_instances_,
  instance_index_,
  disk,              \* DiskManager: page id -> bytes
  \* the last call: its name, arguments and results
  last,
  \* history for the buffer pool's contracts
  shadow,            \* page id -> the bytes last written to the page
  owes,              \* page id -> bytes were modified and no unpin(dirty) followed yet
  zero_order,        \* resident unpinned page ids, oldest drop-to-zero first
  \* ExtendibleHashTable
  directory_page_id_,
  ht_status,         \* "ok", or how the process ended (see HTStatus)
  present,           \* the pairs whose last successful call was an insert
  table_latch_,      \* ReaderWriterLatch of the table: [readers, writer]
  rwlatch_,          \* frame -> the ReaderWriterLatch of its Page
  thread,            \* per thread: its next latch call and the pages it has fetched
  \* LockManager and the transactions it locks for
  lock_table_,       \* rid -> [request_queue, upgrading]
  latch_,            \* the transaction whose thread owns latch_ for good, or none
  txn_state,         \* Transaction::state_
  isolation_level,   \* Transaction::isolation_level_
  shared_lock_set,   \* Transaction::shared_lock_set_
  exclusive_lock_set,
  waiting,           \* per transaction: the cv.wait its thread is in, if any
  released           \* history: the transactions that have called Unlock

bpmVars == <<pages_, free_list_, page_table_, lru_list_, next_page_id_,
             num_instances_, instance_index_, disk>>
histVars == <<last, shadow, owes, zero_order>>
latchVars == <<table_latch_, rwlatch_, thread>>
htVars == <<directory_page_id_, ht_status, present, latchVars>>
lmVars == <<lock_table_, latch_, txn_state, isolation_level, shared_lock_set,
            exclusive_lock_set, waiting, released>>
vars == <<bpmVars, histVars, htVars, lmVars>>

(***************************************************************************)
(* Sequences                                                               *)
(***************************************************************************)
InSeq(s, x) == \E i \in 1..Len(s) : s[i] = x
RemoveAll(s, x) == SelectSeq(s, LAMBDA e : e # x)
Range(s) == {s[i] : i \in 1..Len(s)}

(***************************************************************************)
(* Page contents.  A page is a byte array; the model keeps what the bytes  *)
(* mean.  ZeroPage is a page of zero bytes (Page::ResetMemory).            *)
(***************************************************************************)
ZeroPage == [kind |-> "zero"]
RawPage(b) == [kind |-> "raw", byte |-> b]

Frames == 0..(PoolSize - 1)
PageIds == 0..(MaxPages - 1)

(***************************************************************************)
(* DiskManager (a collaborator): a map from page ids to bytes.             *)
(***************************************************************************)
WritePage(d, page_id, data) ==
  IF page_id \in DOMAIN d THEN [d EXCEPT ![page_id] = data] ELSE d
ReadPage(d, page_id) ==
  IF page_id \in DOMAIN d THEN d[page_id] ELSE ZeroPage

(***************************************************************************)
(* LRUReplacer, on its list lru (lru_hash_ holds the members of the list). *)
(***************************************************************************)
Victim_MRU(lru) ==
  IF lru = <<>> THEN [ok |-> FALSE, frame_id |-> NoFrame, lru |-> lru]
  ELSE [ok |-> TRUE, frame_id |-> Head(lru), lru |-> Tail(lru)]
Victim(lru) ==
  IF lru = <<>> THEN [ok |-> FALSE, frame_id |-> NoFrame, lru |-> lru]
  ELSE [ok |-> TRUE, frame_id |-> lru[Len(lru)],
        lru |-> SubSeq(lru, 1, Len(lru) - 1)]

Pin(lru, frame_id) ==
  IF ~InSeq(lru, frame_id) THEN lru ELSE RemoveAll(lru, frame_id)

Unpin_MoveToFront(lru, frame_id, capacity) ==
  LET rest == RemoveAll(lru, frame_id)
      l1 == IF capacity = Len(rest) THEN SubSeq(rest, 1, Len(rest) - 1)
            ELSE rest
  IN <<frame_id>> \o l1
Unpin(lru, frame_id, capacity) ==
  IF InSeq(lru, frame_id) THEN lru
  ELSE LET l1 == IF capacity = Len(lru) THEN SubSeq(lru, 1, Len(lru) - 1)
                 ELSE lru
       IN <<frame_id>> \o l1

Size(lru) == Len(lru)

(***************************************************************************)
(* BufferPoolManagerInstance, on the record b of its fields.               *)
(***************************************************************************)
Pool == [pages |-> pages_, free_list |-> free_list_, page_table |-> page_table_,
         lru_list |-> lru_list_, next_page_id |-> next_page_id_,
         num_instances |-> num_instances_, instance_index |-> instance_index_,
         disk |-> disk]

NewPool(pool_size, num_instances, instance_index, page_ids) ==
  [pages |-> [f \in 0..(pool_size - 1) |->
                [page_id |-> INVALID_PAGE_ID, pin_count |-> 0,
                 is_dirty |-> FALSE, data |-> ZeroPage]],
   free_list |-> [i \in 1..pool_size |-> i - 1],
   page_table |-> [p \in page_ids |-> NoFrame],
   lru_list |-> <<>>,
   next_page_id |-> instance_index,
   num_instances |-> num_instances,
   instance_index |-> instance_index,
   disk |-> [p \in page_ids |-> ZeroPage]]

PoolFrames(b) == DOMAIN b.pages
\* the replacer's capacity_ is pool_size_
PoolCapacity(b) == Cardinality(DOMAIN b.pages)
Resident(b, page_id) ==
  page_id \in DOMAIN b.page_table /\ b.page_table[page_id] # NoFrame
Erase(pt, page_id) ==
  IF page_id \in DOMAIN pt THEN [pt EXCEPT ![page_id] = NoFrame] ELSE pt

\* page_id_t AllocatePage(): the id handed out and the advanced counter
AllocatePage_ByOne(b) ==
  [page_id |-> b.next_page_id,
   pool |-> [b EXCEPT !.next_page_id = b.next_page_id + 1]]
AllocatePage(b) ==
  [page_id |-> b.next_page_id,
   pool |-> [b EXCEPT !.next_page_id = b.next_page_id + b.num_instances]]

\* ValidatePageId's assertion
ValidatePageId(b, page_id) == page_id % b.num_instances = b.instance_index

\* the frame choice of NewPgImp and FetchPgImp: the free list first, else a
\* victim of the replacer, written back when dirty and erased from the table
PickFrame_NoWriteBack(b) ==
  IF b.free_list # <<>>
  THEN [ok |-> TRUE, frame_id |-> Head(b.free_list),
        pool |-> [b EXCEPT !.free_list = Tail(b.free_list)]]
  ELSE LET v == Victim(b.lru_list) IN
       IF v.ok
       THEN LET page == b.pages[v.frame_id] IN
            [ok |-> TRUE, frame_id |-> v.frame_id,
             pool |-> [b EXCEPT !.lru_list = v.lru,
                                !.page_table = Erase(b.page_table, page.page_id)]]
       ELSE [ok |-> FALSE, frame_id |-> NoFrame, pool |-> b]
PickFrame_NoErase(b) ==
  IF b.free_list # <<>>
  THEN [ok |-> TRUE, frame_id |-> Head(b.free_list),
        pool |-> [b EXCEPT !.free_list = Tail(b.free_list)]]
  ELSE LET v == Victim(b.lru_list) IN
       IF v.ok
       THEN LET page == b.pages[v.frame_id] IN
            [ok |-> TRUE, frame_id |-> v.frame_id,
             pool |-> [b EXCEPT !.lru_list = v.lru,
                                !.disk = IF page.is_dirty
                                         THEN WritePage(b.disk, page.page_id, page.data)
                                         ELSE b.disk]]
       ELSE [ok |-> FALSE, frame_id |-> NoFrame, pool |-> b]
PickFrame_ReplacerFirst(b) ==
  LET v == Victim(b.lru_list) IN
  IF v.ok
  THEN LET page == b.pages[v.frame_id] IN
       [ok |-> TRUE, frame_id |-> v.frame_id,
        pool |-> [b EXCEPT !.lru_list = v.lru,
                           !.disk = IF page.is_dirty
                                    THEN WritePage(b.disk, page.page_id, page.data)
                                    ELSE b.disk,
                           !.page_table = Erase(b.page_table, page.page_id)]]
  ELSE IF b.free_list # <<>>
  THEN [ok |-> TRUE, frame_id |-> Head(b.free_list),
        pool |-> [b EXCEPT !.free_list = Tail(b.free_list)]]
  ELSE [ok |-> FALSE, frame_id |-> NoFrame, pool |-> b]
PickFrame(b) ==
  IF b.free_list # <<>>
  THEN [ok |-> TRUE, frame_id |-> Head(b.free_list),
        pool |-> [b EXCEPT !.free_list = Tail(b.free_list)]]
  ELSE LET v == Victim(b.lru_list) IN
       IF v.ok
       THEN LET page == b.pages[v.frame_id] IN
            [ok |-> TRUE, frame_id |-> v.frame_id,
             pool |-> [b EXCEPT !.lru_list = v.lru,
                                !.disk = IF page.is_dirty
                                         THEN WritePage(b.disk, page.page_id, page.data)
                                         ELSE b.disk,
                                !.page_table = Erase(b.page_table, page.page_id)]]
       ELSE [ok |-> FALSE, frame_id |-> NoFrame, pool |-> b]

\* Page *NewPgImp(page_id_t *page_id): frame is NoFrame for a null result
NewPgImp_AllocateFirst(b) ==
  LET a == AllocatePage(b) IN
  IF \A i \in PoolFrames(b) : b.pages[i].pin_count # 0
  THEN [pool |-> a.pool, frame |-> NoFrame, page_id |-> INVALID_PAGE_ID]
  ELSE LET pick == PickFrame(a.pool) IN
       IF ~pick.ok
       THEN [pool |-> a.pool, frame |-> NoFrame, page_id |-> INVALID_PAGE_ID]
       ELSE [pool |-> [pick.pool EXCEPT
                         !.pages[pick.frame_id] =
                            [page_id |-> a.page_id, pin_count |-> 1,
                             is_dirty |-> FALSE, data |-> ZeroPage],
                         !.page_table[a.page_id] = pick.frame_id,
                         !.lru_list = Pin(pick.pool.lru_list, pick.frame_id)],
             frame |-> pick.frame_id, page_id |-> a.page_id]
NewPgImp(b) ==
  IF \A i \in PoolFrames(b) : b.pages[i].pin_count # 0
  THEN [pool |-> b, frame |-> NoFrame, page_id |-> INVALID_PAGE_ID]
  ELSE LET pick == PickFrame(b) IN
       IF ~pick.ok
       THEN [pool |-> b, frame |-> NoFrame, page_id |-> INVALID_PAGE_ID]
       ELSE LET a == AllocatePage(pick.pool) IN
            [pool |-> [a.pool EXCEPT
                         !.pages[pick.frame_id] =
                            [page_id |-> a.page_id, pin_count |-> 1,
                             is_dirty |-> FALSE, data |-> ZeroPage],
                         !.page_table[a.page_id] = pick.frame_id,
                         !.lru_list = Pin(a.pool.lru_list, pick.frame_id)],
             frame |-> pick.frame_id, page_id |-> a.page_id]

\* Page *FetchPgImp(page_id_t page_id); read tells whether ReadPage was called
FetchPgImp_NoReplacerPin(b, page_id) ==
  IF Resident(b, page_id)
  THEN LET frame_id == b.page_table[page_id] IN
       [pool |-> [b EXCEPT !.pages[frame_id].pin_count = @ + 1],
        frame |-> frame_id, read |-> FALSE]
  ELSE LET pick == PickFrame(b) IN
       IF ~pick.ok
       THEN [pool |-> b, frame |-> NoFrame, read |-> FALSE]
       ELSE [pool |-> [pick.pool EXCEPT
                         !.pages[pick.frame_id] =
                            [page_id |-> page_id, pin_count |-> 1,
                             is_dirty |-> FALSE,
                             data |-> ReadPage(pick.pool.disk, page_id)],
                         !.page_table[page_id] = pick.frame_id,
                         !.lru_list = Pin(pick.pool.lru_list, pick.frame_id)],
             frame |-> pick.frame_id, read |-> TRUE]
FetchPgImp(b, page_id) ==
  IF Resident(b, page_id)
  THEN LET frame_id == b.page_table[page_id] IN
       [pool |-> [b EXCEPT !.pages[frame_id].pin_count = @ + 1,
                           !.lru_list = Pin(b.lru_list, frame_id)],
        frame |-> frame_id, read |-> FALSE]
  ELSE LET pick == PickFrame(b) IN
       IF ~pick.ok
       THEN [pool |-> b, frame |-> NoFrame, read |-> FALSE]
       ELSE [pool |-> [pick.pool EXCEPT
                         !.pages[pick.frame_id] =
                            [page_id |-> page_id, pin_count |-> 1,
                             is_dirty |-> FALSE,
                             data |-> ReadPage(pick.pool.disk, page_id)],
                         !.page_table[page_id] = pick.frame_id,
                         !.lru_list = Pin(pick.pool.lru_list, pick.frame_id)],
             frame |-> pick.frame_id, read |-> TRUE]

\* bool UnpinPgImp(page_id_t page_id, bool is_dirty)
UnpinPgImp_AssignDirty(b, page_id, is_dirty) ==
  IF ~Resident(b, page_id) THEN [pool |-> b, ret |-> FALSE]
  ELSE LET frame_id == b.page_table[page_id]
           page == b.pages[frame_id] IN
       IF page.pin_count <= 0 THEN [pool |-> b, ret |-> FALSE]
       ELSE [pool |-> [b EXCEPT
                         !.pages[frame_id].pin_count = page.pin_count - 1,
                         !.pages[frame_id].is_dirty = is_dirty,
                         !.lru_list = IF page.pin_count - 1 = 0
                                      THEN Unpin(b.lru_list, frame_id, PoolCapacity(b))
                                      ELSE b.lru_list],
             ret |-> TRUE]
UnpinPgImp_AlwaysReplacer(b, page_id, is_dirty) ==
  IF ~Resident(b, page_id) THEN [pool |-> b, ret |-> FALSE]
  ELSE LET frame_id == b.page_table[page_id]
           page == b.pages[frame_id] IN
       IF page.pin_count <= 0 THEN [pool |-> b, ret |-> FALSE]
       ELSE [pool |-> [b EXCEPT
                         !.pages[frame_id].pin_count = page.pin_count - 1,
                         !.pages[frame_id].is_dirty = IF is_dirty THEN TRUE ELSE @,
                         !.lru_list = Unpin(b.lru_list, frame_id, PoolCapacity(b))],
             ret |-> TRUE]
UnpinPgImp(b, page_id, is_dirty) ==
  IF ~Resident(b, page_id) THEN [pool |-> b, ret |-> FALSE]
  ELSE LET frame_id == b.page_table[page_id]
           page == b.pages[frame_id] IN
       IF page.pin_count <= 0 THEN [pool |-> b, ret |-> FALSE]
       ELSE [pool |-> [b EXCEPT
                         !.pages[frame_id].pin_count = page.pin_count - 1,
                         !.pages[frame_id].is_dirty = IF is_dirty THEN TRUE ELSE @,
                         !.lru_list = IF page.pin_count - 1 = 0
                                      THEN Unpin(b.lru_list, frame_id, PoolCapacity(b))
                                      ELSE b.lru_list],
             ret |-> TRUE]

\* bool FlushPgImp(page_id_t page_id)
FlushPgImp_OnlyDirty(b, page_id) ==
  IF ~Resident(b, page_id) THEN [pool |-> b, ret |-> FALSE]
  ELSE LET frame_id == b.page_table[page_id]
           page == b.pages[frame_id] IN
       [pool |-> [b EXCEPT !.disk = IF page.is_dirty
                                    THEN WritePage(b.disk, page.page_id, page.data)
                                    ELSE b.disk,
                           !.pages[frame_id].is_dirty = FALSE],
        ret |-> TRUE]
FlushPgImp(b, page_id) ==
  IF ~Resident(b, page_id) THEN [pool |-> b, ret |-> FALSE]
  ELSE LET frame_id == b.page_table[page_id]
           page == b.pages[frame_id] IN
       [pool |-> [b EXCEPT !.disk = WritePage(b.disk, page.page_id, page.data),
                           !.pages[frame_id].is_dirty = FALSE],
        ret |-> TRUE]

\* void FlushAllPgsImp()
FlushAllPgsImp(b) ==
  [b EXCEPT
     !.disk = [p \in DOMAIN b.disk |->
                 IF Resident(b, p) THEN b.pages[b.page_table[p]].data
                 ELSE b.disk[p]],
     !.pages = [f \in DOMAIN b.pages |->
                 IF \E p \in DOMAIN b.page_table : b.page_table[p] = f
                 THEN [b.pages[f] EXCEPT !.is_dirty = FALSE]
                 ELSE b.pages[f]]]

\* bool DeletePgImp(page_id_t page_id); DeallocatePage does nothing
DeletePgImp_NoFreeList(b, page_id) ==
  IF ~Resident(b, page_id) THEN [pool |-> b, ret |-> TRUE]
  ELSE LET frame_id == b.page_table[page_id]
           page == b.pages[frame_id] IN
       IF page.pin_count > 0 THEN [pool |-> b, ret |-> FALSE]
       ELSE [pool |-> [b EXCEPT
                         !.disk = IF page.is_dirty
                                  THEN WritePage(b.disk, page.page_id, page.data)
                                  ELSE b.disk,
                         !.page_table = Erase(b.page_table, page.page_id),
                         !.lru_list = Pin(b.lru_list, frame_id),
                         !.pages[frame_id] =
                            [page_id |-> INVALID_PAGE_ID, pin_count |-> 0,
                             is_dirty |-> FALSE, data |-> ZeroPage]],
             ret |-> TRUE]
DeletePgImp_NoPinCheck(b, page_id) ==
  IF ~Resident(b, page_id) THEN [pool |-> b, ret |-> TRUE]
  ELSE LET frame_id == b.page_table[page_id]
           page == b.pages[frame_id] IN
       [pool |-> [b EXCEPT
                    !.disk = IF page.is_dirty
                             THEN WritePage(b.disk, page.page_id, page.data)
                             ELSE b.disk,
                    !.page_table = Erase(b.page_table, page.page_id),
                    !.lru_list = Pin(b.lru_list, frame_id),
                    !.pages[frame_id] =
                       [page_id |-> INVALID_PAGE_ID, pin_count |-> 0,
                        is_dirty |-> FALSE, data |-> ZeroPage],
                    !.free_list = Append(b.free_list, frame_id)],
        ret |-> TRUE]
DeletePgImp(b, page_id) ==
  IF ~Resident(b, page_id) THEN [pool |-> b, ret |-> TRUE]
  ELSE LET frame_id == b.page_table[page_id]
           page == b.pages[frame_id] IN
       IF page.pin_count > 0 THEN [pool |-> b, ret |-> FALSE]
       ELSE [pool |-> [b EXCEPT
                         !.disk = IF page.is_dirty
                                  THEN WritePage(b.disk, page.page_id, page.data)
                                  ELSE b.disk,
                         !.page_table = Erase(b.page_table, page.page_id),
                         !.lru_list = Pin(b.lru_list, frame_id),
                         !.pages[frame_id] =
                            [page_id |-> INVALID_PAGE_ID, pin_count |-> 0,
                             is_dirty |-> FALSE, data |-> ZeroPage],
                         !.free_list = Append(b.free_list, frame_id)],
             ret |-> TRUE]

(***************************************************************************)
(* ReaderWriterLatch (table_latch_ and each Page's rwlatch_): any number   *)
(* of readers or one writer.  A call that cannot be granted blocks its     *)
(* thread.                                                                 *)
(***************************************************************************)
NoThread == 0
Threads == 1..MaxThreads
\* frames whose Page latches the threads use: two per thread, the most one
\* call keeps pinned (SplitInsert: split page and image page)
LatchFrames == 0..(2 * MaxThreads - 1)
FreeLatch == [readers |-> {}, writer |-> NoThread]
CanRLock(l) == l.writer = NoThread
CanWLock(l) == l.writer = NoThread /\ l.readers = {}
RLock(l, t) == [l EXCEPT !.readers = @ \cup {t}]
WLock(l, t) == [l EXCEPT !.writer = t]
RUnlock(l, t) == [l EXCEPT !.readers = @ \ {t}]
WUnlock(l, t) == [l EXCEPT !.writer = NoThread]
\* a thread outside every call of the table
IdleThread == [pc |-> "idle", page |-> NoFrame, image |-> NoFrame, first |-> "none"]
\* no thread is inside a call of the table: every latch is free
NoLatches ==
  /\ table_latch_ = FreeLatch
  /\ rwlatch_ = [f \in LatchFrames |-> FreeLatch]
  /\ thread = [t \in Threads |-> IdleThread]

(***************************************************************************)
(* SpecBPM: one buffer pool instance and its clients.                      *)
(***************************************************************************)
\* no lock manager and no transaction exist in this run
NoLockManager ==
  /\ lock_table_ = <<>>
  /\ latch_ = INVALID_TXN_ID
  /\ txn_state = <<>>
  /\ isolation_level = <<>>
  /\ shared_lock_set = <<>>
  /\ exclusive_lock_set = <<>>
  /\ waiting = <<>>
  /\ released = {}
\* no buffer pool and no hash table exist in this run
NoBufferPool ==
  /\ pages_ = <<>>
  /\ free_list_ = <<>>
  /\ page_table_ = <<>>
  /\ lru_list_ = <<>>
  /\ next_page_id_ = 0
  /\ num_instances_ = 1
  /\ instance_index_ = 0
  /\ disk = <<>>
  /\ shadow = <<>>
  /\ owes = <<>>
  /\ zero_order = <<>>
  /\ directory_page_id_ = INVALID_PAGE_ID
  /\ ht_status = "ok"
  /\ present = {}
  /\ NoLatches
SetPool(b) ==
  /\ pages_' = b.pages
  /\ free_list_' = b.free_list
  /\ page_table_' = b.page_table
  /\ lru_list_' = b.lru_list
  /\ next_page_id_' = b.next_page_id
  /\ num_instances_' = b.num_instances
  /\ instance_index_' = b.instance_index
  /\ disk' = b.disk

\* the page a call made non-resident, INVALID_PAGE_ID when none
Evicted(b, c) ==
  LET gone == {p \in DOMAIN b.page_table : Resident(b, p) /\ ~Resident(c, p)}
  IN IF gone = {} THEN INVALID_PAGE_ID ELSE CHOOSE p \in gone : TRUE

Call(op, page_id, is_dirty, ok, frame, read, evicted) ==
  [op |-> op, page_id |-> page_id, is_dirty |-> is_dirty, ok |-> ok,
   frame |-> frame, read |-> read, evicted |-> evicted]

PinCount(b, page_id) == b.pages[b.page_table[page_id]].pin_count
UnpinnedResident(b, page_id) == Resident(b, page_id) /\ PinCount(b, page_id) = 0

\* the resident unpinned pages in the order their pin counts dropped to zero
ZeroOrderAfter(zo, b) ==
  LET keep == SelectSeq(zo, LAMBDA p : UnpinnedResident(b, p))
      new == {p \in DOMAIN b.page_table : UnpinnedResident(b, p) /\ ~InSeq(zo, p)}
  IN IF new = {} THEN keep ELSE Append(keep, CHOOSE p \in new : TRUE)

\* page ids this instance has allocated so far
Allocated(b) ==
  {p \in DOMAIN b.page_table :
     p < b.next_page_id /\ p % b.num_instances = b.instance_index}

InitBPM ==
  \* BufferPoolManagerInstance(pool_size, disk_manager, log_manager)
  /\ LET b == NewPool(PoolSize, 1, 0, PageIds) IN
       /\ pages_ = b.pages
       /\ free_list_ = b.free_list
       /\ page_table_ = b.page_table
       /\ lru_list_ = b.lru_list
       /\ next_page_id_ = b.next_page_id
       /\ num_instances_ = b.num_instances
       /\ instance_index_ = b.instance_index
       /\ disk = b.disk
  /\ last = Call("init", INVALID_PAGE_ID, FALSE, TRUE, NoFrame, FALSE, INVALID_PAGE_ID)
  /\ shadow = [p \in PageIds |-> ZeroPage]
  /\ owes = [p \in PageIds |-> FALSE]
  /\ zero_order = <<>>
  /\ directory_page_id_ = INVALID_PAGE_ID
  /\ ht_status = "ok"
  /\ present = {}
  /\ NoLatches
  /\ NoLockManager

BpmNewPage ==
  /\ next_page_id_ < instance_index_ + MaxPages * num_instances_
  /\ LET r == NewPgImp(Pool) IN
     /\ SetPool(r.pool)
     /\ last' = Call("new_page", r.page_id, FALSE, r.frame # NoFrame, r.frame, FALSE,
                     Evicted(Pool, r.pool))
     /\ zero_order' = ZeroOrderAfter(zero_order, r.pool)
     /\ UNCHANGED <<shadow, owes, htVars, lmVars>>

BpmFetchPage(page_id) ==
  /\ page_id \in Allocated(Pool)
  /\ Resident(Pool, page_id) => PinCount(Pool, page_id) < MaxPin
  /\ LET r == FetchPgImp(Pool, page_id) IN
     /\ SetPool(r.pool)
     /\ last' = Call("fetch_page", page_id, FALSE, r.frame # NoFrame, r.frame, r.read,
                     Evicted(Pool, r.pool))
     /\ zero_order' = ZeroOrderAfter(zero_order, r.pool)
     /\ UNCHANGED <<shadow, owes, htVars, lmVars>>

\* a client that modified the bytes releases its pin with is_dirty = TRUE
BpmUnpinPage(page_id, is_dirty) ==
  /\ (Resident(Pool, page_id) /\ owes[page_id] /\ PinCount(Pool, page_id) = 1)
        => is_dirty
  /\ LET r == UnpinPgImp(Pool, page_id, is_dirty) IN
     /\ SetPool(r.pool)
     /\ last' = Call("unpin_page", page_id, is_dirty, r.ret, NoFrame, FALSE, INVALID_PAGE_ID)
     /\ zero_order' = ZeroOrderAfter(zero_order, r.pool)
     /\ owes' = IF r.ret /\ is_dirty THEN [owes EXCEPT ![page_id] = FALSE] ELSE owes
     /\ UNCHANGED <<shadow, htVars, lmVars>>

BpmFlushPage(page_id) ==
  LET r == FlushPgImp(Pool, page_id) IN
  /\ SetPool(r.pool)
  /\ last' = Call("flush_page", page_id, FALSE, r.ret, NoFrame, FALSE, INVALID_PAGE_ID)
  /\ UNCHANGED <<shadow, owes, zero_order, htVars, lmVars>>

BpmFlushAllPages ==
  /\ SetPool(FlushAllPgsImp(Pool))
  /\ last' = Call("flush_all_pages", INVALID_PAGE_ID, FALSE, TRUE, NoFrame, FALSE,
                  INVALID_PAGE_ID)
  /\ UNCHANGED <<shadow, owes, zero_order, htVars, lmVars>>

BpmDeletePage(page_id) ==
  LET r == DeletePgImp(Pool, page_id) IN
  /\ SetPool(r.pool)
  /\ last' = Call("delete_page", page_id, FALSE, r.ret, NoFrame, FALSE, INVALID_PAGE_ID)
  /\ zero_order' = ZeroOrderAfter(zero_order, r.pool)
  /\ UNCHANGED <<shadow, owes, htVars, lmVars>>

\* a client holding a pin on page_id overwrites the page's bytes
BpmWriteBytes(page_id, byte) ==
  /\ Resident(Pool, page_id)
  /\ PinCount(Pool, page_id) > 0
  /\ pages_' = [pages_ EXCEPT ![page_table_[page_id]].data = RawPage(byte)]
  /\ shadow' = [shadow EXCEPT ![page_id] = RawPage(byte)]
  /\ owes' = [owes EXCEPT ![page_id] = TRUE]
  /\ last' = Call("write_bytes", page_id, FALSE, TRUE, page_table_[page_id], FALSE,
                  INVALID_PAGE_ID)
  /\ UNCHANGED <<free_list_, page_table_, lru_list_, next_page_id_,
                 num_instances_, instance_index_, disk, zero_order, htVars, lmVars>>

NextBPM ==
  \/ BpmNewPage
  \/ \E p \in PageIds : BpmFetchPage(p)
  \/ \E p \in PageIds : \E d \in BOOLEAN : BpmUnpinPage(p, d)
  \/ \E p \in PageIds : BpmFlushPage(p)
  \/ BpmFlushAllPages
  \/ \E p \in PageIds : BpmDeletePage(p)
  \/ \E p \in PageIds : \E byte \in 1..MaxByte : BpmWriteBytes(p, byte)

SpecBPM == InitBPM /\ [][NextBPM]_vars

(***************************************************************************)
(* SpecBPI: the same instance as instance_index_ of num_instances_, with   *)
(* the clients SpecBPM has; the calls name page ids this instance owns.    *)
(***************************************************************************)
InstancePageIds == 0..(MaxPages * MaxInstances - 1)
\* the page ids routed to this instance
OwnPageIds ==
  {p \in InstancePageIds : p % num_instances_ = instance_index_
                             /\ p < instance_index_ + MaxPages * num_instances_}

InitBPI ==
  \* BufferPoolManagerInstance(pool_size, num_instances, instance_index, ...)
  /\ \E n \in 1..MaxInstances : \E k \in 0..(n - 1) :
       LET b == NewPool(PoolSize, n, k, InstancePageIds) IN
       /\ pages_ = b.pages
       /\ free_list_ = b.free_list
       /\ page_table_ = b.page_table
       /\ lru_list_ = b.lru_list
       /\ next_page_id_ = b.next_page_id
       /\ num_instances_ = b.num_instances
       /\ instance_index_ = b.instance_index
       /\ disk = b.disk
  /\ last = Call("init", INVALID_PAGE_ID, FALSE, TRUE, NoFrame, FALSE, INVALID_PAGE_ID)
  /\ shadow = [p \in InstancePageIds |-> ZeroPage]
  /\ owes = [p \in InstancePageIds |-> FALSE]
  /\ zero_order = <<>>
  /\ directory_page_id_ = INVALID_PAGE_ID
  /\ ht_status = "ok"
  /\ present = {}
  /\ NoLatches
  /\ NoLockManager

NextBPI ==
  \/ BpmNewPage
  \/ \E p \in OwnPageIds : BpmFetchPage(p)
  \/ \E p \in OwnPageIds : \E d \in BOOLEAN : BpmUnpinPage(p, d)
  \/ \E p \in OwnPageIds : BpmFlushPage(p)
  \/ BpmFlushAllPages
  \/ \E p \in OwnPageIds : BpmDeletePage(p)
  \/ \E p \in OwnPageIds : \E byte \in 1..MaxByte : BpmWriteBytes(p, byte)

SpecBPI == InitBPI /\ [][NextBPI]_vars

(***************************************************************************)
(* SpecLRU: one LRUReplacer of capacity ReplacerCapacity on its own, its   *)
(* callers free to name any frame in any order.  zero_order keeps, oldest  *)
(* first, the frames in the order of the unpin calls that found them       *)
(* absent; a frame leaves it when it is pinned, handed out as the victim,  *)
(* or is the oldest while a new frame arrives at a full replacer.          *)
(***************************************************************************)
LruFrames == 0..MaxFrame

InitLRU ==
  \* LRUReplacer(num_pages)
  /\ NoBufferPool
  /\ NoLockManager
  /\ last = Call("init", INVALID_PAGE_ID, FALSE, TRUE, NoFrame, FALSE, INVALID_PAGE_ID)

LruUnchanged ==
  UNCHANGED <<pages_, free_list_, page_table_, next_page_id_, num_instances_,
              instance_index_, disk, shadow, owes, htVars, lmVars>>

LruVictim ==
  /\ LET v == Victim(lru_list_) IN
       /\ lru_list_' = v.lru
       /\ last' = Call("victim", INVALID_PAGE_ID, FALSE, v.ok, v.frame_id, FALSE,
                       INVALID_PAGE_ID)
  /\ zero_order' = IF zero_order = <<>> THEN <<>> ELSE Tail(zero_order)
  /\ LruUnchanged

LruPin(frame_id) ==
  /\ lru_list_' = Pin(lru_list_, frame_id)
  /\ last' = Call("pin", INVALID_PAGE_ID, FALSE, TRUE, frame_id, FALSE, INVALID_PAGE_ID)
  /\ zero_order' = RemoveAll(zero_order, frame_id)
  /\ LruUnchanged

LruUnpin(frame_id) ==
  /\ lru_list_' = Unpin(lru_list_, frame_id, ReplacerCapacity)
  /\ last' = Call("unpin", INVALID_PAGE_ID, FALSE, TRUE, frame_id, FALSE, INVALID_PAGE_ID)
  /\ zero_order' =
       IF InSeq(zero_order, frame_id) THEN zero_order
       ELSE Append(IF Len(zero_order) = ReplacerCapacity THEN Tail(zero_order)
                   ELSE zero_order, frame_id)
  /\ LruUnchanged

\* size_t Size(): the result is recorded as the call's frame
LruSize ==
  /\ last' = Call("size", INVALID_PAGE_ID, FALSE, TRUE, Size(lru_list_), FALSE,
                  INVALID_PAGE_ID)
  /\ UNCHANGED <<lru_list_, zero_order>>
  /\ LruUnchanged

NextLRU ==
  \/ LruVictim
  \/ \E f \in LruFrames : LruPin(f)
  \/ \E f \in LruFrames : LruUnpin(f)
  \/ LruSize

SpecLRU == InitLRU /\ [][NextLRU]_vars

(***************************************************************************)
(* Claims about the buffer pool instance (SpecBPM).                        *)
(***************************************************************************)
AllPinned(b) == \A f \in PoolFrames(b) : b.pages[f].pin_count > 0
FrameOf(page_id) == page_table_[page_id]

\* C4: the pool and the disk behave like one map from page ids to bytes: when
\* every client that modifies a page releases its pin with is_dirty = TRUE,
\* fetch_page of any allocated page, resident or evicted, returns the bytes
\* last written to it.
C4_DirtyDataSurvives ==
  \A p \in Allocated(Pool) :
    LET r == FetchPgImp(Pool, p) IN
    r.frame # NoFrame => r.pool.pages[r.frame].data = shadow[p]

\* a written page was evicted and has just been read back from the disk
C4_Witness ==
  /\ last.op = "fetch_page" /\ last.ok /\ last.read
  /\ shadow[last.page_id] # ZeroPage
  /\ pages_[last.frame].data = shadow[last.page_id]
  /\ last.evicted # INVALID_PAGE_ID

\* C5: no new_page, fetch_page or delete_page removes a pinned page from the
\* page table, gives its frame to another page id, or changes its bytes.
C5_PinnedNeverEvicted ==
  [][last'.op \in {"new_page", "fetch_page", "delete_page"} =>
       \A p \in PageIds :
         (Resident(Pool, p) /\ PinCount(Pool, p) > 0) =>
            /\ page_table_'[p] = page_table_[p]
            /\ pages_'[FrameOf(p)].page_id = p
            /\ pages_'[FrameOf(p)].data = pages_[FrameOf(p)].data
            /\ pages_'[FrameOf(p)].pin_count >= pages_[FrameOf(p)].pin_count]_vars

\* new_page evicted a page while another page stayed pinned in its frame
C5_Witness ==
  /\ last.op = "new_page" /\ last.ok /\ last.evicted # INVALID_PAGE_ID
  /\ \E p \in PageIds :
       Resident(Pool, p) /\ p # last.page_id /\ PinCount(Pool, p) > 0

\* C6: the page table is a bijection between the resident page ids and the
\* occupied frames: the mapped frame stores the key as its page id, no two
\* page ids share a frame, and no mapped frame is on the free list.
C6_PageTableBijection ==
  /\ \A p \in PageIds :
       Resident(Pool, p) =>
         /\ FrameOf(p) \in Frames
         /\ pages_[FrameOf(p)].page_id = p
         /\ ~InSeq(free_list_, FrameOf(p))
  /\ \A p, q \in PageIds :
       (Resident(Pool, p) /\ Resident(Pool, q) /\ p # q) => FrameOf(p) # FrameOf(q)

\* every frame is occupied, and the last call evicted a page to make room
C6_Witness ==
  /\ last.ok /\ last.evicted # INVALID_PAGE_ID
  /\ Cardinality({p \in PageIds : Resident(Pool, p)}) = PoolSize

\* C7: a frame is in the replacer iff its pin count is 0 and it is not on the
\* free list; every frame is exactly one of free, in the replacer, or pinned.
C7_ReplacerMembership ==
  \A f \in Frames :
    /\ InSeq(lru_list_, f) <=> (pages_[f].pin_count = 0 /\ ~InSeq(free_list_, f))
    /\ Cardinality({i \in 1..Len(lru_list_) : lru_list_[i] = f})
         + Cardinality({i \in 1..Len(free_list_) : free_list_[i] = f})
         + (IF pages_[f].pin_count > 0 THEN 1 ELSE 0) = 1

\* after an unpin one frame is in the replacer while another is still pinned
C7_Witness ==
  /\ last.op = "unpin_page" /\ last.ok
  /\ \E f, g \in Frames : InSeq(lru_list_, f) /\ pages_[g].pin_count > 0

\* C8: with every frame pinned, new_page and fetch_page of a non-resident page
\* return null and leave the pool (the page-id counter included) unchanged;
\* with a frame free or unpinned, new_page succeeds.
C8_CapacityExhausted ==
  [][/\ (last'.op = "new_page" /\ AllPinned(Pool)) =>
          (~last'.ok /\ UNCHANGED bpmVars)
     /\ (last'.op = "fetch_page" /\ AllPinned(Pool)
           /\ ~Resident(Pool, last'.page_id)) =>
          (~last'.ok /\ UNCHANGED bpmVars)
     /\ (last'.op = "new_page" /\ ~AllPinned(Pool)) => last'.ok]_vars

\* new_page has just failed on a pool whose frames are all pinned
C8_Witness ==
  /\ last.op = "new_page" /\ ~last.ok /\ AllPinned(Pool)
  /\ next_page_id_ > 0

\* C9: new_page and fetch_page of a non-resident page take the head of the
\* free list while it is non-empty and evict nothing; otherwise they evict the
\* page whose pin count dropped to 0 longest ago, and every other unpinned page
\* stays resident and is fetched without a disk read.
C9_FrameSelectionOrder ==
  [][(/\ last'.op \in {"new_page", "fetch_page"}
      /\ last'.ok
      /\ ~Resident(Pool, last'.page_id)) =>
       IF free_list_ # <<>>
       THEN /\ last'.frame = Head(free_list_)
            /\ last'.evicted = INVALID_PAGE_ID
            /\ \A p \in PageIds : Resident(Pool, p) => Resident(Pool', p)
       ELSE /\ zero_order # <<>>
            /\ last'.evicted = Head(zero_order)
            /\ \A p \in PageIds :
                 (UnpinnedResident(Pool, p) /\ p # Head(zero_order)) =>
                    /\ Resident(Pool', p)
                    /\ ~FetchPgImp(Pool', p).read]_vars

\* a page was evicted while a later-unpinned page stayed resident
C9_Witness ==
  /\ last.op \in {"new_page", "fetch_page"} /\ last.ok
  /\ last.evicted # INVALID_PAGE_ID
  /\ zero_order # <<>>

C11_DeletePage ==
  [][last'.op = "delete_page" =>
       LET p == last'.page_id IN
       IF ~Resident(Pool, p) THEN last'.ok /\ UNCHANGED bpmVars
       ELSE IF PinCount(Pool, p) > 0 THEN ~last'.ok /\ UNCHANGED bpmVars
       ELSE /\ last'.ok
            /\ disk' = IF pages_[FrameOf(p)].is_dirty
                       THEN [disk EXCEPT ![p] = pages_[FrameOf(p)].data]
                       ELSE disk
            /\ page_table_' = [page_table_ EXCEPT ![p] = NoFrame]
            /\ ~InSeq(lru_list_', FrameOf(p))
            /\ Range(lru_list_') = Range(lru_list_) \ {FrameOf(p)}
            /\ pages_' = [pages_ EXCEPT ![FrameOf(p)] =
                            [page_id |-> INVALID_PAGE_ID, pin_count |-> 0,
                             is_dirty |-> FALSE, data |-> ZeroPage]]
            /\ free_list_' = Append(free_list_, FrameOf(p))
            /\ UNCHANGED <<next_page_id_, num_instances_, instance_index_>>]_vars

\* delete_page has just failed on a pinned page holding unsaved bytes
C11_Witness ==
  /\ last.op = "delete_page" /\ ~last.ok
  /\ Resident(Pool, last.page_id)
  /\ PinCount(Pool, last.page_id) > 0
  /\ pages_[FrameOf(last.page_id)].is_dirty

\* C12: flush_page of a resident page writes the frame's current bytes to the
\* disk whether or not the frame is dirty, clears is_dirty and changes nothing
\* else (pin count, residency, replacer); of a page that is not resident it
\* returns false and changes nothing.  Right after it a fetch_page of the page
\* yields the flushed bytes, and so does a read of the page from the disk,
\* which is what a reload after an eviction returns.
C12_FlushPage ==
  [][last'.op = "flush_page" =>
       LET p == last'.page_id IN
       IF ~Resident(Pool, p) THEN ~last'.ok /\ UNCHANGED bpmVars
       ELSE LET bytes == pages_[FrameOf(p)].data
                r == FetchPgImp(Pool', p)
            IN /\ last'.ok
               /\ disk' = [disk EXCEPT ![p] = bytes]
               /\ pages_' = [pages_ EXCEPT ![FrameOf(p)].is_dirty = FALSE]
               /\ UNCHANGED <<free_list_, page_table_, lru_list_, next_page_id_,
                              num_instances_, instance_index_>>
               /\ r.frame = FrameOf(p) /\ ~r.read
               /\ r.pool.pages[r.frame].data = bytes
               /\ ReadPage(disk', p) = bytes]_vars

\* a pinned page whose new bytes no unpin has marked dirty was flushed: the
\* disk now holds the bytes
C12_Witness ==
  /\ last.op = "flush_page" /\ last.ok
  /\ owes[last.page_id]
  /\ PinCount(Pool, last.page_id) > 0
  /\ disk[last.page_id] = shadow[last.page_id]
  /\ shadow[last.page_id] # ZeroPage

\* C13: the page ids new_page of instance k of n returns are k, k + n,
\* k + 2n, ... in this order: each is congruent to k modulo n and larger than
\* every id handed out before, and no other call (a failed new_page and
\* delete_page included) moves the counter, so no id is handed out twice.
C13_PageIdAllocation ==
  [][/\ next_page_id_ >= instance_index_
     /\ (next_page_id_ - instance_index_) % num_instances_ = 0
     /\ (last'.op = "new_page" /\ last'.ok) =>
          /\ last'.page_id % num_instances_ = instance_index_
          /\ last'.page_id =
               instance_index_ + num_instances_ * Cardinality(Allocated(Pool))
          /\ \A p \in Allocated(Pool) : p < last'.page_id
          /\ Allocated(Pool') = Allocated(Pool) \cup {last'.page_id}
     /\ ~(last'.op = "new_page" /\ last'.ok) => next_page_id_' = next_page_id_
     /\ UNCHANGED <<num_instances_, instance_index_>>]_vars

\* instance 1 of 2 has handed out its third id, 5, after a delete_page
C13_Witness ==
  /\ num_instances_ = 2 /\ instance_index_ = 1
  /\ last.op = "new_page" /\ last.ok /\ last.page_id = 5
  /\ \E p \in Allocated(Pool) : ~Resident(Pool, p) /\ InSeq(free_list_, 0)

\* C14: the replacer on its own: victim fails exactly when no frame is
\* present, and otherwise removes and returns the present frame whose last
\* unpin-while-absent is the oldest; unpin of a present frame changes nothing;
\* size() is the number of present frames and never exceeds the capacity.
C14_LruReplacer ==
  [][/\ Range(lru_list_) = Range(zero_order)
     /\ Len(lru_list_) <= ReplacerCapacity
     /\ last'.op = "victim" =>
          IF zero_order = <<>>
          THEN ~last'.ok /\ lru_list_' = lru_list_
          ELSE /\ last'.ok
               /\ last'.frame = Head(zero_order)
               /\ Range(lru_list_') = Range(lru_list_) \ {last'.frame}
               /\ Len(lru_list_') = Len(lru_list_) - 1
     /\ (last'.op = "unpin" /\ InSeq(lru_list_, last'.frame)) =>
          lru_list_' = lru_list_
     /\ last'.op = "size" => last'.frame = Len(zero_order)]_vars

\* victim has just returned frame 0 out of a full replacer, and frame 1 is
\* among the frames still present
C14_Witness ==
  /\ last.op = "victim" /\ last.ok /\ last.frame = 0
  /\ Len(lru_list_) = ReplacerCapacity - 1
  /\ InSeq(lru_list_, 1)

(***************************************************************************)
(* uint32_t bit arithmetic, for the operands the hash table uses.          *)
(***************************************************************************)
Pow2(n) == 2 ^ n
\* x & mask, for a mask of the form (1 << d) - 1
BitAnd(x, mask) == x % (mask + 1)
\* x ^ (1 << b)
BitFlip(x, b) == IF (x \div Pow2(b)) % 2 = 1 THEN x - Pow2(b) ELSE x + Pow2(b)
Min(S) == CHOOSE x \in S : \A y \in S : x <= y

(***************************************************************************)
(* HashTableDirectoryPage, on the record dir of its fields (lsn_ is never  *)
(* read).  The arrays have DIRECTORY_ARRAY_SIZE = 1 << MAX_DEPTH slots.    *)
(***************************************************************************)
DIRECTORY_ARRAY_SIZE == Pow2(MAX_DEPTH)
DirSlots == 0..(DIRECTORY_ARRAY_SIZE - 1)
\* a zeroed page read as a directory page
ZeroDirectory ==
  [kind |-> "dir", page_id |-> 0, global_depth |-> 0,
   local_depths |-> [i \in DirSlots |-> 0],
   bucket_page_ids |-> [i \in DirSlots |-> 0]]

SetPageId(dir, page_id) == [dir EXCEPT !.page_id = page_id]
GetGlobalDepth(dir) == dir.global_depth
GetGlobalDepthMask(dir) == Pow2(dir.global_depth) - 1
DirSize(dir) == Pow2(dir.global_depth)
\* the copy loop stays inside the arrays only below MAX_DEPTH
IncrGlobalDepthInBounds(dir) == 2 * DirSize(dir) <= DIRECTORY_ARRAY_SIZE
IncrGlobalDepth(dir) ==
  LET n == DirSize(dir) IN
  [dir EXCEPT
     !.bucket_page_ids = [i \in DirSlots |->
        IF i >= n /\ i < 2 * n THEN dir.bucket_page_ids[i - n]
        ELSE dir.bucket_page_ids[i]],
     !.local_depths = [i \in DirSlots |->
        IF i >= n /\ i < 2 * n THEN dir.local_depths[i - n]
        ELSE dir.local_depths[i]],
     !.global_depth = dir.global_depth + 1]
DecrGlobalDepth(dir) == [dir EXCEPT !.global_depth = dir.global_depth - 1]
GetBucketPageId(dir, bucket_idx) == dir.bucket_page_ids[bucket_idx]
SetBucketPageId(dir, bucket_idx, bucket_page_id) ==
  [dir EXCEPT !.bucket_page_ids[bucket_idx] = bucket_page_id]
CanShrink(dir) ==
  \A i \in 0..(DirSize(dir) - 1) : dir.local_depths[i] # dir.global_depth
GetLocalDepth(dir, bucket_idx) == dir.local_depths[bucket_idx]
\* SetLocalDepth and IncrLocalDepth assert what the ...Holds operators say
SetLocalDepthHolds(dir, local_depth) == local_depth <= dir.global_depth
SetLocalDepth(dir, bucket_idx, local_depth) ==
  [dir EXCEPT !.local_depths[bucket_idx] = local_depth]
IncrLocalDepthHolds(dir, bucket_idx) ==
  dir.local_depths[bucket_idx] < dir.global_depth
IncrLocalDepth(dir, bucket_idx) ==
  [dir EXCEPT !.local_depths[bucket_idx] = @ + 1]
\* local_depths_ holds uint8_t
DecrLocalDepth(dir, bucket_idx) ==
  [dir EXCEPT !.local_depths[bucket_idx] = (@ - 1) % 256]
\* at local depth 0 the shift count is -1 and the result is not defined;
\* the one caller that can pass such an index (Merge) does not use the result
GetSplitImageIndex(dir, bucket_idx) ==
  IF dir.local_depths[bucket_idx] = 0 THEN bucket_idx
  ELSE BitFlip(bucket_idx, dir.local_depths[bucket_idx] - 1)

\* the three invariants VerifyIntegrity asserts
VerifyIntegrity(dir) ==
  LET live == 0..(DirSize(dir) - 1)
      page_ids == {dir.bucket_page_ids[i] : i \in live}
      page_id_to_count(p) == Cardinality({i \in live : dir.bucket_page_ids[i] = p})
      \* the local depth recorded for p: that of its first slot
      page_id_to_ld(p) ==
        dir.local_depths[Min({i \in live : dir.bucket_page_ids[i] = p})]
  IN /\ \A i \in live : dir.local_depths[i] <= dir.global_depth
     /\ \A i \in live :
          dir.local_depths[i] = page_id_to_ld(dir.bucket_page_ids[i])
     /\ \A p \in page_ids :
          page_id_to_count(p) = Pow2(dir.global_depth - page_id_to_ld(p))

(***************************************************************************)
(* HashTableBucketPage, on the record bucket of its fields.                *)
(***************************************************************************)
BucketSlots == 0..(BUCKET_ARRAY_SIZE - 1)
ZeroMapping == <<0, 0>>
\* a zeroed page read as a bucket page
ZeroBucket ==
  [kind |-> "bucket",
   occupied |-> [i \in BucketSlots |-> FALSE],
   readable |-> [i \in BucketSlots |-> FALSE],
   array |-> [i \in BucketSlots |-> ZeroMapping]]

IsOccupied(bucket, i) == bucket.occupied[i]
IsReadable(bucket, i) == bucket.readable[i]
KeyAt(bucket, i) == bucket.array[i][1]
ValueAt(bucket, i) == bucket.array[i][2]
\* BUCKET_ARRAY_SIZE is fixed per instantiation of the page template: a
\* bucket record has the slots of its instantiation, DOMAIN bucket.occupied
\* the slots a scan reaches before its break at the first unoccupied slot
Scanned(bucket) ==
  {i \in DOMAIN bucket.occupied : \A j \in 0..i : IsOccupied(bucket, j)}
SlotOrder(bucket) == [n \in 1..Cardinality(DOMAIN bucket.occupied) |-> n - 1]

BucketGetValue(bucket, key) ==
  LET hits == SelectSeq(SlotOrder(bucket), LAMBDA i :
                i \in Scanned(bucket) /\ IsReadable(bucket, i)
                /\ KeyAt(bucket, i) = key)
  IN [ret |-> hits # <<>>,
      result |-> [n \in 1..Len(hits) |-> ValueAt(bucket, hits[n])]]

\* Insert without the test for the pair being stored already
BucketInsert_NoDuplicateTest(bucket, key, value) ==
  LET seen == {i \in DOMAIN bucket.occupied :
                 \A j \in 0..(i - 1) : IsOccupied(bucket, j)}
      free == {i \in seen : ~IsReadable(bucket, i) \/ ~IsOccupied(bucket, i)}
  IN IF free = {} THEN [bucket |-> bucket, ret |-> FALSE]
     ELSE LET free_idx == Min(free) IN
          [bucket |-> [bucket EXCEPT !.array[free_idx] = <<key, value>>,
                                     !.occupied[free_idx] = TRUE,
                                     !.readable[free_idx] = TRUE],
           ret |-> TRUE]

BucketInsert(bucket, key, value) ==
  LET \* the slots the loop looks at: the scanned ones and the one it breaks on
      seen == {i \in DOMAIN bucket.occupied :
                 \A j \in 0..(i - 1) : IsOccupied(bucket, j)}
      free == {i \in seen : ~IsReadable(bucket, i) \/ ~IsOccupied(bucket, i)}
      duplicate == \E i \in Scanned(bucket) :
                     /\ IsReadable(bucket, i)
                     /\ KeyAt(bucket, i) = key
                     /\ ValueAt(bucket, i) = value
  IN IF duplicate \/ free = {} THEN [bucket |-> bucket, ret |-> FALSE]
     ELSE LET free_idx == Min(free) IN
          [bucket |-> [bucket EXCEPT !.array[free_idx] = <<key, value>>,
                                     !.occupied[free_idx] = TRUE,
                                     !.readable[free_idx] = TRUE],
           ret |-> TRUE]

RemoveAt(bucket, bucket_idx) == [bucket EXCEPT !.readable[bucket_idx] = FALSE]

\* (the loop bound in the source is BLOCK_ARRAY_SIZE, the same number)
BucketRemove(bucket, key, value) ==
  LET found == {i \in Scanned(bucket) :
                  /\ IsReadable(bucket, i)
                  /\ KeyAt(bucket, i) = key
                  /\ ValueAt(bucket, i) = value}
  IN IF found = {} THEN [bucket |-> bucket, ret |-> FALSE]
     ELSE [bucket |-> RemoveAt(bucket, Min(found)), ret |-> TRUE]

NumReadable(bucket) ==
  Cardinality({i \in Scanned(bucket) : IsReadable(bucket, i)})
IsFull(bucket) == NumReadable(bucket) = Cardinality(DOMAIN bucket.occupied)
IsEmpty(bucket) == NumReadable(bucket) = 0
GetArrayCopy(bucket) ==
  LET live == SelectSeq(SlotOrder(bucket), LAMBDA i :
                i \in Scanned(bucket) /\ IsReadable(bucket, i))
  IN [n \in 1..Len(live) |-> bucket.array[live[n]]]
Clear(bucket) ==
  [kind |-> "bucket",
   occupied |-> [i \in DOMAIN bucket.occupied |-> FALSE],
   readable |-> [i \in DOMAIN bucket.occupied |-> FALSE],
   array |-> [i \in DOMAIN bucket.array |-> ZeroMapping]]

(***************************************************************************)
(* ExtendibleHashTable, on the record w of the table's directory_page_id_, *)
(* the buffer pool it uses and the way the process goes on:                *)
(*   "ok"          running                                                 *)
(*   "assert"      an assert() failed: the process aborted                 *)
(*   "null_page"   FetchPage/NewPage returned nullptr and it was used      *)
(*   "no_page_id"  NewPage failed and its unset page id was used           *)
(*   "overflow"    IncrGlobalDepth wrote past the directory arrays         *)
(* Everything but "ok" ends the run.  The calls of SpecHT are sequential   *)
(* and leave every latch free; SpecLatch has the latch calls of threads.   *)
(***************************************************************************)
HTStatus == {"ok", "assert", "null_page", "no_page_id", "overflow"}
Keys == 0..MaxKey
Values == 1..MaxValue
\* page ids the table's pool can hand out: a split pins a frame for good
HTPageIds == 0..(HTPoolSize + 1)

\* HashFunction::GetHash (a collaborator): a 64-bit hash of the key
GetHash(key) == key
\* the downcast to uint32_t keeps the low 32 bits; the hashes of Keys are
\* below 2^31, so all their bits stay
Hash(key) == GetHash(key)
KeyToDirectoryIndex(key, dir) == BitAnd(Hash(key), GetGlobalDepthMask(dir))
KeyToPageId(key, dir) == GetBucketPageId(dir, KeyToDirectoryIndex(key, dir))

\* the bytes of a resident page, and the same bytes read as a page object
PageData(w, page_id) == w.pool.pages[w.pool.page_table[page_id]].data
AsDirectory(data) == IF data.kind = "dir" THEN data ELSE ZeroDirectory
AsBucket(data) == IF data.kind = "bucket" THEN data ELSE ZeroBucket
Bytes(object) == IF object \in {ZeroDirectory, ZeroBucket} THEN ZeroPage ELSE object
Directory(w) == AsDirectory(PageData(w, w.directory_page_id))
Bucket(w, page_id) == AsBucket(PageData(w, page_id))
SetPageData(w, page_id, object) ==
  [w EXCEPT !.pool.pages[w.pool.page_table[page_id]].data = Bytes(object)]
SetDirectory(w, dir) == SetPageData(w, w.directory_page_id, dir)

\* buffer_pool_manager_->FetchPage(page_id), the result r about to be used;
\* a process that has stopped fetches nothing
HtFetched(w, r) ==
  [w EXCEPT !.pool = r.pool,
            !.status = IF r.frame = NoFrame THEN "null_page" ELSE "ok"]
HtFetchPage(w, page_id) ==
  IF w.status # "ok" THEN w ELSE HtFetched(w, FetchPgImp(w.pool, page_id))
FetchDirectoryPage(w) == HtFetchPage(w, w.directory_page_id)
FetchBucketPage(w, bucket_page_id) == HtFetchPage(w, bucket_page_id)
\* assert(buffer_pool_manager_->UnpinPage(page_id, is_dirty, nullptr))
AssertUnpinPage(w, page_id, is_dirty) ==
  IF w.status # "ok" THEN w
  ELSE LET r == UnpinPgImp(w.pool, page_id, is_dirty) IN
       [w EXCEPT !.pool = r.pool,
                 !.status = IF r.ret THEN "ok" ELSE "assert"]
\* assert(buffer_pool_manager_->DeletePage(page_id, nullptr))
AssertDeletePage(w, page_id) ==
  IF w.status # "ok" THEN w
  ELSE LET r == DeletePgImp(w.pool, page_id) IN
       [w EXCEPT !.pool = r.pool,
                 !.status = IF r.ret THEN "ok" ELSE "assert"]
Stop(w, status) == [w EXCEPT !.status = status]
Returns(w, ret) == [w |-> w, ret |-> ret]

\* ExtendibleHashTable(name, buffer_pool_manager, comparator, hash_fn):
\* NewPage for the directory (d), NewPage for the first bucket (n)
NewBucket(w1, n) ==
  IF n.frame = NoFrame THEN Stop([w1 EXCEPT !.pool = n.pool], "no_page_id")
  ELSE
  LET w2 == [w1 EXCEPT !.pool = n.pool]
      w3 == SetDirectory(w2, SetBucketPageId(Directory(w2), 0, n.page_id))
  IN AssertUnpinPage(AssertUnpinPage(w3, w3.directory_page_id, TRUE),
                     n.page_id, TRUE)
NewDirectory(d) ==
  IF d.frame = NoFrame
  THEN [pool |-> d.pool, status |-> "null_page", directory_page_id |-> d.page_id]
  ELSE
  LET w0 == [pool |-> d.pool, status |-> "ok", directory_page_id |-> d.page_id]
      w1 == SetDirectory(w0, SetPageId(Directory(w0), d.page_id))
  IN NewBucket(w1, NewPgImp(w1.pool))
NewHashTable(pool) == NewDirectory(NewPgImp(pool))

\* GetValue(transaction, key, result): w1 has the directory page fetched,
\* w2 the bucket page too
GetValueInBucket(w2, key, bucket_page_id) ==
  IF w2.status # "ok" THEN [w |-> w2, ret |-> FALSE, result |-> <<>>]
  ELSE
  LET res == BucketGetValue(Bucket(w2, bucket_page_id), key) IN
  [w |-> AssertUnpinPage(AssertUnpinPage(w2, w2.directory_page_id, FALSE),
                         bucket_page_id, FALSE),
   ret |-> res.ret, result |-> res.result]
GetValueInDirectory(w1, key) ==
  IF w1.status # "ok" THEN [w |-> w1, ret |-> FALSE, result |-> <<>>]
  ELSE
  LET bucket_page_id == KeyToPageId(key, Directory(w1)) IN
  GetValueInBucket(FetchBucketPage(w1, bucket_page_id), key, bucket_page_id)
GetValue(w, key) == GetValueInDirectory(FetchDirectoryPage(w), key)

\* the slots the two loops from index i0 visit:
\* for (i = i0; i >= diff; i -= diff) and for (i = i0; i < Size(); i += diff)
SweepDown(i0, diff) == {i \in 0..i0 : i >= diff /\ (i0 - i) % diff = 0}
SweepUp(i0, diff, size) == {i \in i0..(size - 1) : (i - i0) % diff = 0}
\* SetLocalDepth(i, local_depth); SetBucketPageId(i, page_id) for i in slots
SetSlots(dir, slots, local_depth, page_id) ==
  [dir EXCEPT
     !.local_depths = [i \in DirSlots |->
        IF i \in slots THEN local_depth ELSE dir.local_depths[i]],
     !.bucket_page_ids = [i \in DirSlots |->
        IF i \in slots THEN page_id ELSE dir.bucket_page_ids[i]]]

\* the loop that inserts the saved pairs again, from origin_array[i] on
RECURSIVE Redistribute(_, _, _, _, _, _, _)
Redistribute(origin_array, i, dir, split_id, image_id, split_bucket, image_bucket) ==
  IF i > Len(origin_array)
  THEN [ok |-> TRUE, split_bucket |-> split_bucket, image_bucket |-> image_bucket]
  ELSE
  LET target_bucket_page_id == KeyToPageId(origin_array[i][1], dir) IN
  IF target_bucket_page_id \notin {split_id, image_id}
  THEN [ok |-> FALSE, split_bucket |-> split_bucket, image_bucket |-> image_bucket]
  ELSE IF target_bucket_page_id = split_id
  THEN Redistribute(origin_array, i + 1, dir, split_id, image_id,
                    BucketInsert(split_bucket, origin_array[i][1],
                                 origin_array[i][2]).bucket,
                    image_bucket)
  ELSE Redistribute(origin_array, i + 1, dir, split_id, image_id, split_bucket,
                    BucketInsert(image_bucket, origin_array[i][1],
                                 origin_array[i][2]).bucket)

\* Insert(transaction, key, value) and SplitInsert(transaction, key, value),
\* each in the steps its page fetches divide it into: a step takes the table
\* as the fetch before it left it
RECURSIVE Insert(_, _, _)

\* the directory after SplitInsert has set the image slot and run its four
\* loops over the slots of the split bucket and of its image
SplitRepoint(dir2, split_bucket_index, split_bucket_page_id, image_bucket_page_id) ==
  LET local_depth == GetLocalDepth(dir2, split_bucket_index)
      split_image_bucket_index == GetSplitImageIndex(dir2, split_bucket_index)
      dir3 == SetBucketPageId(
                SetLocalDepth(dir2, split_image_bucket_index, local_depth),
                split_image_bucket_index, image_bucket_page_id)
      diff == Pow2(local_depth)
      dir4 == SetSlots(dir3,
                SweepDown(split_bucket_index, diff)
                  \cup SweepUp(split_bucket_index, diff, DirSize(dir3)),
                local_depth, split_bucket_page_id)
  IN SetSlots(dir4,
              SweepDown(split_image_bucket_index, diff)
                \cup SweepUp(split_image_bucket_index, diff, DirSize(dir4)),
              local_depth, image_bucket_page_id)

\* SplitInsert with the directory, the split bucket and the image fetched
SplitInsertMove(w4, key, value, dir2, origin_array, split_bucket_index, split_bucket_page_id, image_bucket_page_id) ==
  LET local_depth == GetLocalDepth(dir2, split_bucket_index)
      split_image_bucket_index == GetSplitImageIndex(dir2, split_bucket_index)
  IN
  IF w4.status # "ok" THEN Returns(w4, FALSE)
  ELSE IF ~SetLocalDepthHolds(dir2, local_depth)
  THEN Returns(Stop(w4, "assert"), FALSE)
  ELSE
  LET dir5 == SplitRepoint(dir2, split_bucket_index, split_bucket_page_id,
                           image_bucket_page_id)
      moved == Redistribute(origin_array, 1, dir5, split_bucket_page_id,
                            image_bucket_page_id,
                            Bucket(w4, split_bucket_page_id),
                            Bucket(w4, image_bucket_page_id))
  IN
  IF ~moved.ok THEN Returns(Stop(SetDirectory(w4, dir5), "assert"), FALSE)
  ELSE
  LET w5 == SetPageData(
              SetPageData(SetDirectory(w4, dir5), split_bucket_page_id,
                          moved.split_bucket),
              image_bucket_page_id, moved.image_bucket)
  IN Insert(AssertUnpinPage(
              AssertUnpinPage(
                AssertUnpinPage(w5, split_bucket_page_id, TRUE),
                image_bucket_page_id, TRUE),
              w4.directory_page_id, TRUE),
            key, value)

\* NewPage(&image_bucket_page_id) gave n, its result dropped, then a fetch
SplitInsertImage(w3, n, key, value, dir2, origin_array, split_bucket_index, split_bucket_page_id) ==
  IF n.frame = NoFrame
  THEN Returns(Stop([w3 EXCEPT !.pool = n.pool], "no_page_id"), FALSE)
  ELSE SplitInsertMove(
         FetchBucketPage([w3 EXCEPT !.pool = n.pool], n.page_id),
         key, value, dir2, origin_array, split_bucket_index,
         split_bucket_page_id, n.page_id)

\* SplitInsert with the directory and the split bucket fetched
SplitInsertBucket(w2, key, value, dir2, split_bucket_index, split_bucket_page_id) ==
  IF w2.status # "ok" THEN Returns(w2, FALSE)
  ELSE
  LET origin_array == GetArrayCopy(Bucket(w2, split_bucket_page_id))
      w3 == SetPageData(w2, split_bucket_page_id,
                        Clear(Bucket(w2, split_bucket_page_id)))
  IN SplitInsertImage(w3, NewPgImp(w3.pool), key, value, dir2, origin_array,
                      split_bucket_index, split_bucket_page_id)

\* SplitInsert with the directory fetched
SplitInsertDirectory(w1, key, value) ==
  IF w1.status # "ok" THEN Returns(w1, FALSE)
  ELSE
  LET dir0 == Directory(w1)
      split_bucket_index == KeyToDirectoryIndex(key, dir0)
      split_bucket_depth == GetLocalDepth(dir0, split_bucket_index)
      grow == split_bucket_depth = GetGlobalDepth(dir0)
  IN
  IF grow /\ ~IncrGlobalDepthInBounds(dir0)
  THEN Returns(Stop(w1, "overflow"), FALSE)
  ELSE
  LET dir1 == IF grow THEN IncrGlobalDepth(dir0) ELSE dir0 IN
  IF ~IncrLocalDepthHolds(dir1, split_bucket_index)
  THEN Returns(Stop(SetDirectory(w1, dir1), "assert"), FALSE)
  ELSE
  LET dir2 == IncrLocalDepth(dir1, split_bucket_index)
      split_bucket_page_id == KeyToPageId(key, dir2)
  IN SplitInsertBucket(
       FetchBucketPage(SetDirectory(w1, dir2), split_bucket_page_id),
       key, value, dir2, split_bucket_index, split_bucket_page_id)

SplitInsert(w, key, value) ==
  SplitInsertDirectory(FetchDirectoryPage(w), key, value)

\* Insert with the directory and the bucket fetched
InsertInBucket(w2, key, value, bucket_page_id) ==
  IF w2.status # "ok" THEN Returns(w2, FALSE)
  ELSE
  IF ~IsFull(Bucket(w2, bucket_page_id))
  THEN LET res == BucketInsert(Bucket(w2, bucket_page_id), key, value)
           w3 == SetPageData(w2, bucket_page_id, res.bucket)
       IN Returns(AssertUnpinPage(
                    AssertUnpinPage(w3, w2.directory_page_id, FALSE),
                    bucket_page_id, TRUE),
                  res.ret)
  ELSE SplitInsert(AssertUnpinPage(
                     AssertUnpinPage(w2, w2.directory_page_id, FALSE),
                     bucket_page_id, FALSE),
                   key, value)

\* Insert with the directory fetched
InsertInDirectory(w1, key, value) ==
  IF w1.status # "ok" THEN Returns(w1, FALSE)
  ELSE
  LET bucket_page_id == KeyToPageId(key, Directory(w1)) IN
  InsertInBucket(FetchBucketPage(w1, bucket_page_id), key, value,
                 bucket_page_id)

Insert(w, key, value) == InsertInDirectory(FetchDirectoryPage(w), key, value)

\* while (dir_page->CanShrink()) dir_page->DecrGlobalDepth();
RECURSIVE Shrink(_)
Shrink(dir) == IF CanShrink(dir) THEN Shrink(DecrGlobalDepth(dir)) ELSE dir

\* Merge(transaction, key, value) with the directory and the target bucket
\* fetched, the bucket unpinned and its page deleted
MergeDeleted(w4, dir0, target_bucket_index, image_bucket_index, target_bucket_page_id) ==
  IF w4.status # "ok" THEN w4
  ELSE
  LET image_bucket_page_id == GetBucketPageId(dir0, image_bucket_index)
      dir1 == SetBucketPageId(dir0, target_bucket_index, image_bucket_page_id)
      dir2 == DecrLocalDepth(DecrLocalDepth(dir1, target_bucket_index),
                             image_bucket_index)
  IN
  IF GetLocalDepth(dir2, target_bucket_index)
       # GetLocalDepth(dir2, image_bucket_index)
     \/ ~SetLocalDepthHolds(dir2, GetLocalDepth(dir2, image_bucket_index))
  THEN Stop(SetDirectory(w4, dir2), "assert")
  ELSE
  LET same == {i \in 0..(DirSize(dir2) - 1) :
                 GetBucketPageId(dir2, i)
                   \in {target_bucket_page_id, image_bucket_page_id}}
      dir3 == SetSlots(dir2, same, GetLocalDepth(dir2, image_bucket_index),
                       image_bucket_page_id)
  IN AssertUnpinPage(SetDirectory(w4, Shrink(dir3)), w4.directory_page_id, TRUE)

\* Merge with the directory and the target bucket fetched
MergeBucket(w2, dir0, target_bucket_index, image_bucket_index, target_bucket_page_id) ==
  IF w2.status # "ok" THEN w2
  ELSE IF ~IsEmpty(Bucket(w2, target_bucket_page_id))
  THEN AssertUnpinPage(AssertUnpinPage(w2, w2.directory_page_id, FALSE),
                       target_bucket_page_id, FALSE)
  ELSE MergeDeleted(
         AssertDeletePage(AssertUnpinPage(w2, target_bucket_page_id, FALSE),
                          target_bucket_page_id),
         dir0, target_bucket_index, image_bucket_index, target_bucket_page_id)

\* Merge with the directory fetched
MergeDirectory(w1, key) ==
  IF w1.status # "ok" THEN w1
  ELSE
  LET dir0 == Directory(w1)
      target_bucket_index == KeyToDirectoryIndex(key, dir0)
      image_bucket_index == GetSplitImageIndex(dir0, target_bucket_index)
      target_bucket_page_id == KeyToPageId(key, dir0)
      local_depth == GetLocalDepth(dir0, target_bucket_index)
  IN
  IF local_depth = 0 \/ local_depth # GetLocalDepth(dir0, image_bucket_index)
  THEN AssertUnpinPage(w1, w1.directory_page_id, FALSE)
  ELSE MergeBucket(FetchBucketPage(w1, target_bucket_page_id), dir0,
                   target_bucket_index, image_bucket_index,
                   target_bucket_page_id)

Merge(w, key, value) == MergeDirectory(FetchDirectoryPage(w), key)

\* Remove(transaction, key, value) with the directory and the bucket fetched
RemoveInBucket(w2, key, value, bucket_page_id) ==
  IF w2.status # "ok" THEN Returns(w2, FALSE)
  ELSE
  LET res == BucketRemove(Bucket(w2, bucket_page_id), key, value)
      w3 == SetPageData(w2, bucket_page_id, res.bucket)
  IN
  IF IsEmpty(res.bucket)
  THEN Returns(Merge(AssertUnpinPage(
                       AssertUnpinPage(w3, w2.directory_page_id, TRUE),
                       bucket_page_id, FALSE),
                     key, value),
               res.ret)
  ELSE Returns(AssertUnpinPage(
                 AssertUnpinPage(w3, w2.directory_page_id, FALSE),
                 bucket_page_id, TRUE),
               res.ret)

\* Remove with the directory fetched
RemoveInDirectory(w1, key, value) ==
  IF w1.status # "ok" THEN Returns(w1, FALSE)
  ELSE
  LET bucket_page_id == KeyToPageId(key, Directory(w1)) IN
  RemoveInBucket(FetchBucketPage(w1, bucket_page_id), key, value,
                 bucket_page_id)

Remove(w, key, value) == RemoveInDirectory(FetchDirectoryPage(w), key, value)

(***************************************************************************)
(* SpecHT: one hash table over its own buffer pool, called sequentially.   *)
(***************************************************************************)
World == [pool |-> Pool, status |-> ht_status,
          directory_page_id |-> directory_page_id_]
SetWorld(w) ==
  /\ SetPool(w.pool)
  /\ ht_status' = w.status
  /\ directory_page_id_' = w.directory_page_id

HtCall(op, key, value, ret, result) ==
  [op |-> op, key |-> key, value |-> value, ret |-> ret, result |-> result]

\* the directory page as the table would read it now
CurrentDirectory ==
  AsDirectory(IF Resident(Pool, directory_page_id_)
              THEN PageData(World, directory_page_id_)
              ELSE ReadPage(disk, directory_page_id_))

InitHT ==
  /\ \E w \in {NewHashTable(NewPool(HTPoolSize, 1, 0, HTPageIds))} :
       /\ pages_ = w.pool.pages
       /\ free_list_ = w.pool.free_list
       /\ page_table_ = w.pool.page_table
       /\ lru_list_ = w.pool.lru_list
       /\ next_page_id_ = w.pool.next_page_id
       /\ num_instances_ = w.pool.num_instances
       /\ instance_index_ = w.pool.instance_index
       /\ disk = w.pool.disk
       /\ ht_status = w.status
       /\ directory_page_id_ = w.directory_page_id
  /\ present = {}
  /\ NoLatches
  /\ last = HtCall("new", 0, 0, TRUE, <<>>)
  /\ shadow = <<>>
  /\ owes = <<>>
  /\ zero_order = <<>>
  /\ NoLockManager

HtInsert(key, value) ==
  /\ ht_status = "ok"
  /\ \E r \in {Insert(World, key, value)} :
       /\ SetWorld(r.w)
       /\ present' = IF r.w.status = "ok" /\ r.ret
                     THEN present \cup {<<key, value>>} ELSE present
       /\ last' = HtCall("insert", key, value, r.ret, <<>>)
  /\ UNCHANGED <<shadow, owes, zero_order, latchVars, lmVars>>

HtRemove(key, value) ==
  /\ ht_status = "ok"
  /\ \E r \in {Remove(World, key, value)} :
       /\ SetWorld(r.w)
       /\ present' = IF r.w.status = "ok" /\ r.ret
                     THEN present \ {<<key, value>>} ELSE present
       /\ last' = HtCall("remove", key, value, r.ret, <<>>)
  /\ UNCHANGED <<shadow, owes, zero_order, latchVars, lmVars>>

HtGetValue(key) ==
  /\ ht_status = "ok"
  /\ \E r \in {GetValue(World, key)} :
       /\ SetWorld(r.w)
       /\ last' = HtCall("get", key, 0, r.ret, r.result)
  /\ UNCHANGED <<present, shadow, owes, zero_order, latchVars, lmVars>>

NextHT ==
  \/ \E key \in Keys, value \in Values : HtInsert(key, value)
  \/ \E key \in Keys, value \in Values : HtRemove(key, value)
  \/ \E key \in Keys : HtGetValue(key)

SpecHT == InitHT /\ [][NextHT]_vars

(***************************************************************************)
(* The latch calls of GetValue, Insert, SplitInsert, Remove and Merge, by  *)
(* MaxThreads threads at once.  thread[t].pc names the latch call thread t *)
(* makes next; a step is one latch call.  Which page a key leads to is a   *)
(* free choice, made when the table latch is taken (KeyToPageId follows    *)
(* it); the pages' contents are left out.  page and image are the frames   *)
(* the thread has fetched and not yet unpinned.                            *)
(***************************************************************************)
\* position -> the latch the call is made on and the call
LatchCalls ==
  [pc \in {"GetValue.RLock", "Insert.RLock", "Remove.RLock"} |-> <<"table", "RLock">>] @@
  [pc \in {"SplitInsert.WLock", "Merge.WLock"} |-> <<"table", "WLock">>] @@
  [pc \in {"GetValue.RUnlock", "Insert.RUnlock", "Remove.RUnlock"} |-> <<"table", "RUnlock">>] @@
  [pc \in {"SplitInsert.WUnlock", "Merge.WUnlock"} |-> <<"table", "WUnlock">>] @@
  [pc \in {"GetValue.RLatch", "Insert.RLatch", "Merge.RLatch"} |-> <<"page", "RLock">>] @@
  [pc \in {"GetValue.RUnlatch", "Insert.RUnlatch", "Merge.RUnlatch"} |-> <<"page", "RUnlock">>] @@
  [pc \in {"Remove.WLatch", "SplitInsert.WLatch"} |-> <<"page", "WLock">>] @@
  [pc \in {"Remove.WUnlatch", "SplitInsert.WUnlatch"} |-> <<"page", "WUnlock">>] @@
  [pc \in {"SplitInsert.WLatchImage"} |-> <<"image", "WLock">>] @@
  [pc \in {"SplitInsert.WUnlatchImage"} |-> <<"image", "WUnlock">>]
\* the positions at which a call starts with nothing fetched
Unpinned == {"idle", "Insert.RLock", "SplitInsert.WLock", "Merge.WLock"}

\* the latch thread t's call at position pc is made on
LatchAt(t, pc) ==
  IF LatchCalls[pc][1] = "table" THEN table_latch_
  ELSE IF LatchCalls[pc][1] = "page" THEN rwlatch_[thread[t].page]
  ELSE rwlatch_[thread[t].image]
Granted(l, call) ==
  IF call = "RLock" THEN CanRLock(l) ELSE IF call = "WLock" THEN CanWLock(l) ELSE TRUE
Called(l, t, call) ==
  IF call = "RLock" THEN RLock(l, t)
  ELSE IF call = "WLock" THEN WLock(l, t)
  ELSE IF call = "RUnlock" THEN RUnlock(l, t)
  ELSE WUnlock(l, t)
HoldsTable(t) == t \in table_latch_.readers \/ table_latch_.writer = t
HoldsPage(t, f) == t \in rwlatch_[f].readers \/ rwlatch_[f].writer = t
\* frames some thread has fetched and not unpinned: NewPage cannot pick them
Pinned == {thread[u].page : u \in Threads} \cup {thread[u].image : u \in Threads}
\* thread t after its call at from, going on at to: taking the table latch
\* it learns its page and fetches it; first is the latch it took while it
\* held none
Moved(t, from, to, page) ==
  [pc |-> to,
   page |-> IF to \in Unpinned THEN NoFrame
            ELSE IF LatchCalls[from][2] \in {"RLock", "WLock"} THEN page
            ELSE thread[t].page,
   image |-> IF to \in Unpinned THEN NoFrame ELSE thread[t].image,
   first |-> IF LatchCalls[from][2] \in {"RUnlock", "WUnlock"} THEN thread[t].first
             ELSE IF HoldsTable(t) \/ \E f \in LatchFrames : HoldsPage(t, f) THEN thread[t].first
             ELSE LatchCalls[from][1]]
\* one latch call of thread t
Step(t, from, to) ==
  /\ thread[t].pc = from
  /\ Granted(LatchAt(t, from), LatchCalls[from][2])
  /\ IF LatchCalls[from][1] = "table"
     THEN /\ table_latch_' = Called(table_latch_, t, LatchCalls[from][2])
          /\ UNCHANGED rwlatch_
     ELSE /\ rwlatch_' = [rwlatch_ EXCEPT
               ![IF LatchCalls[from][1] = "page" THEN thread[t].page ELSE thread[t].image] =
                 Called(@, t, LatchCalls[from][2])]
          /\ UNCHANGED table_latch_
  /\ \E page \in IF LatchCalls[from][1] = "table" THEN LatchFrames ELSE {thread[t].page} :
       thread' = [thread EXCEPT ![t] = Moved(t, from, to, page)]
  /\ UNCHANGED <<bpmVars, histVars, directory_page_id_, ht_status, present, lmVars>>

\* a thread calls GetValue, Insert or Remove
LatchCall(t) ==
  /\ thread[t].pc = "idle"
  /\ \E pc \in {"GetValue.RLock", "Insert.RLock", "Remove.RLock"} :
       thread' = [thread EXCEPT ![t].pc = pc]
  /\ UNCHANGED <<table_latch_, rwlatch_>>
  /\ UNCHANGED <<bpmVars, histVars, directory_page_id_, ht_status, present, lmVars>>
LatchGetValue(t) ==
  \/ Step(t, "GetValue.RLock", "GetValue.RLatch")
  \/ Step(t, "GetValue.RLatch", "GetValue.RUnlatch")
  \/ Step(t, "GetValue.RUnlatch", "GetValue.RUnlock")
  \/ Step(t, "GetValue.RUnlock", "idle")
\* Insert going on to SplitInsert with the table read latch still held
LatchInsert_KeepsTableLatch(t) ==
  \/ Step(t, "Insert.RLock", "Insert.RLatch")
  \/ Step(t, "Insert.RLatch", "Insert.RUnlatch")
  \/ Step(t, "Insert.RUnlatch", "Insert.RUnlock")
  \/ Step(t, "Insert.RUnlock", "idle")
  \/ /\ thread[t].pc = "Insert.RUnlock"
     /\ thread' = [thread EXCEPT ![t].pc = "SplitInsert.WLock"]
     /\ UNCHANGED <<table_latch_, rwlatch_>>
     /\ UNCHANGED <<bpmVars, histVars, directory_page_id_, ht_status, present, lmVars>>
\* the bucket is full or not: the latches are released in the same order
LatchInsert(t) ==
  \/ Step(t, "Insert.RLock", "Insert.RLatch")
  \/ Step(t, "Insert.RLatch", "Insert.RUnlatch")
  \/ Step(t, "Insert.RUnlatch", "Insert.RUnlock")
  \/ Step(t, "Insert.RUnlock", "idle")
  \/ Step(t, "Insert.RUnlock", "SplitInsert.WLock")
\* NewPage hands out a frame nobody has pinned
LatchNewPage(t) ==
  /\ thread[t].pc = "SplitInsert.NewPage"
  /\ \E f \in LatchFrames \ Pinned :
       thread' = [thread EXCEPT ![t] = [@ EXCEPT !.pc = "SplitInsert.WLatchImage", !.image = f]]
  /\ UNCHANGED <<table_latch_, rwlatch_>>
  /\ UNCHANGED <<bpmVars, histVars, directory_page_id_, ht_status, present, lmVars>>
LatchSplitInsert(t) ==
  \/ Step(t, "SplitInsert.WLock", "SplitInsert.WLatch")
  \/ Step(t, "SplitInsert.WLatch", "SplitInsert.NewPage")
  \/ LatchNewPage(t)
  \/ Step(t, "SplitInsert.WLatchImage", "SplitInsert.WUnlock")
  \/ Step(t, "SplitInsert.WUnlock", "SplitInsert.WUnlatch")
  \/ Step(t, "SplitInsert.WUnlatch", "SplitInsert.WUnlatchImage")
  \/ Step(t, "SplitInsert.WUnlatchImage", "Insert.RLock")
LatchRemove(t) ==
  \/ Step(t, "Remove.RLock", "Remove.WLatch")
  \/ Step(t, "Remove.WLatch", "Remove.WUnlatch")
  \/ Step(t, "Remove.WUnlatch", "Remove.RUnlock")
  \/ Step(t, "Remove.RUnlock", "idle")
  \/ Step(t, "Remove.RUnlock", "Merge.WLock")
\* at its early return (local depths) Merge skips the page latch
LatchMerge(t) ==
  \/ Step(t, "Merge.WLock", "Merge.RLatch")
  \/ /\ thread[t].pc = "Merge.RLatch"
     /\ thread' = [thread EXCEPT ![t].pc = "Merge.WUnlock"]
     /\ UNCHANGED <<table_latch_, rwlatch_>>
     /\ UNCHANGED <<bpmVars, histVars, directory_page_id_, ht_status, present, lmVars>>
  \/ Step(t, "Merge.RLatch", "Merge.RUnlatch")
  \/ Step(t, "Merge.RUnlatch", "Merge.WUnlock")
  \/ Step(t, "Merge.WUnlock", "idle")

InitLatch ==
  /\ NoBufferPool
  /\ NoLockManager
  /\ last = HtCall("new", 0, 0, TRUE, <<>>)
NextLatch ==
  \/ \E t \in Threads : LatchCall(t)
  \/ \E t \in Threads : LatchGetValue(t)
  \/ \E t \in Threads : LatchInsert(t)
  \/ \E t \in Threads : LatchSplitInsert(t)
  \/ \E t \in Threads : LatchRemove(t)
  \/ \E t \in Threads : LatchMerge(t)
SpecLatch == InitLatch /\ [][NextLatch]_vars

(***************************************************************************)
(* Claims about the extendible hash table                                  *)
(***************************************************************************)
\* C1: after any sequence of insert and remove calls, get(k) returns exactly
\* the values v whose pair (k,v) was last successfully inserted, not removed.
C1_GetReturnsPresent ==
  (ht_status = "ok" /\ last.op = "get")
    => Range(last.result) = {v \in Values : <<last.key, v>> \in present}

\* C2: after every completed insert or remove the live directory satisfies
\* the integrity conditions: local depths at most the global depth, every
\* page id pointed at by exactly 2^(global depth - local depth) slots, all
\* with the same local depth.
C2_DirectoryIntegrity ==
  (ht_status = "ok" /\ last.op \in {"insert", "remove"})
    => VerifyIntegrity(CurrentDirectory)

\* what get(key) returns in table w, as a set of values
GetResult(w, key) == Range(GetValue(w, key).result)

\* C15: insert(k,v) of a pair that is present, whether or not the bucket k
\* maps to is full, returns false and leaves get(k') unchanged for every k'.
C15_DuplicateInsert ==
  [][(last'.op = "insert" /\ <<last'.key, last'.value>> \in present) =>
       /\ ht_status' = "ok"
       /\ ~last'.ret
       /\ \A k \in Keys : GetResult(World', k) = GetResult(World, k)]_vars

\* insert(key, value) returning true and then remove(key, value), from w
RoundTripHolds(w, r, key, value) ==
  /\ r.w.status = "ok"
  /\ r.ret
  /\ \A k \in Keys : GetResult(r.w, k) = GetResult(w, k)
InsertedThenRemoved(w, i, key, value) ==
  (i.w.status = "ok" /\ i.ret) => RoundTripHolds(w, Remove(i.w, key, value), key, value)

\* C16: in every reachable table state, for every pair (k,v) that is not
\* present, an insert(k,v) that returns true followed by remove(k,v) has the
\* remove return true and leaves get(k') as it was before the insert, for
\* every key k'.
C16_InsertRemoveRoundTrip ==
  ht_status = "ok" =>
    \A key \in Keys, value \in Values :
      <<key, value>> \notin present =>
        InsertedThenRemoved(World, Insert(World, key, value), key, value)

\* C17: remove(k,v) of a pair that is not present returns false and leaves
\* get(k') unchanged for every key k', also when the target bucket is empty.
C17_RemoveMissing ==
  [][(last'.op = "remove" /\ <<last'.key, last'.value>> \notin present) =>
       /\ ht_status' = "ok"
       /\ ~last'.ret
       /\ \A k \in Keys : GetResult(World', k) = GetResult(World, k)]_vars

\* the bucket of key is full of pairs whose keys hash as key does: no split
\* can make room for one more
FullOfOneHashIn(w2, key, pairs) ==
  /\ w2.status = "ok"
  /\ Len(pairs) = BUCKET_ARRAY_SIZE
  /\ \A n \in 1..Len(pairs) : Hash(pairs[n][1]) = Hash(key)
FullOfOneHashAt(w2, key, bucket_page_id) ==
  FullOfOneHashIn(w2, key, IF w2.status = "ok" THEN GetArrayCopy(Bucket(w2, bucket_page_id)) ELSE <<>>)
FullOfOneHash(w, key) ==
  FullOfOneHashAt(HtFetchPage(w, KeyToPageId(key, CurrentDirectory)), key, KeyToPageId(key, CurrentDirectory))

\* C18: every insert returns after finitely many splits with global_depth at
\* most MAX_DEPTH, and an insert into a bucket that is full of pairs of the
\* same hash value (a duplicate pair among them or not) returns false
\* instead of splitting without bound.
C18_InsertBoundedDepth ==
  [][last'.op = "insert" =>
       /\ ht_status' # "overflow"
       /\ GetGlobalDepth(CurrentDirectory') <= MAX_DEPTH
       /\ FullOfOneHash(World, last'.key) => (ht_status' = "ok" /\ ~last'.ret)]_vars

\* C19: between the calls of the table every pin the table took has been
\* given back: the directory page and every bucket page, a split's new image
\* bucket included, have pin_count 0.
C19_PinBalance ==
  ht_status = "ok" =>
    \A p \in HTPageIds : Resident(Pool, p) => PinCount(Pool, p) = 0

(***************************************************************************)
(* SpecRace: the table of SpecHT called by MaxThreads threads.  Insert     *)
(* holds table_latch_ and the bucket page's latch for reading while it     *)
(* runs bucket->Insert, so several threads can be inside bucket->Insert    *)
(* of one page: its scan (the loop) and its writes are two steps.  Calls   *)
(* that need a write latch, and GetValue, are taken as one step each, made *)
(* while no thread is between the two steps.                               *)
(***************************************************************************)
RaceKeys == 0..MaxRaceKey
\* Insert up to the end of the loop of bucket->Insert, when the bucket has
\* room and does not hold the pair: free_idx is chosen, nothing is written
RaceInsert(t, key, value) ==
  /\ ht_status = "ok"
  /\ thread[t].pc = "idle"
  /\ CanRLock(table_latch_)
  /\ \E w1 \in {FetchDirectoryPage(World)} :
     \E bucket_page_id \in {IF w1.status = "ok" THEN KeyToPageId(key, Directory(w1)) ELSE INVALID_PAGE_ID} :
     \E w2 \in {FetchBucketPage(w1, bucket_page_id)} :
       /\ w2.status = "ok"
       /\ \E bucket \in {Bucket(w2, bucket_page_id)} :
          \E res \in {BucketInsert(bucket, key, value)} :
            /\ ~IsFull(bucket)
            /\ res.ret
            /\ \E free_idx \in {i \in BucketSlots : res.bucket.readable[i] /\ ~(bucket.readable[i] /\ bucket.occupied[i])} :
                 thread' = [thread EXCEPT ![t] =
                   [pc |-> "Insert.BucketInsert", key |-> key, value |-> value,
                    page |-> bucket_page_id, free_idx |-> free_idx]]
       /\ SetWorld(w2)
  /\ table_latch_' = RLock(table_latch_, t)
  /\ UNCHANGED <<present, rwlatch_, histVars, lmVars>>
\* the writes of bucket->Insert at the free_idx its loop chose, and the
\* rest of Insert
RaceBucketInsert(t) ==
  /\ thread[t].pc = "Insert.BucketInsert"
  /\ \E bucket \in {Bucket(World, thread[t].page)} :
     \E w3 \in {SetPageData(World, thread[t].page,
                   [bucket EXCEPT !.array[thread[t].free_idx] = <<thread[t].key, thread[t].value>>,
                                  !.occupied[thread[t].free_idx] = TRUE,
                                  !.readable[thread[t].free_idx] = TRUE])} :
     \E w4 \in {AssertUnpinPage(AssertUnpinPage(w3, directory_page_id_, FALSE), thread[t].page, TRUE)} :
       /\ SetWorld(w4)
       /\ present' = IF w4.status = "ok" THEN present \cup {<<thread[t].key, thread[t].value>>} ELSE present
  /\ last' = HtCall("insert", thread[t].key, thread[t].value, TRUE, <<>>)
  /\ table_latch_' = RUnlock(table_latch_, t)
  /\ thread' = [thread EXCEPT ![t] = IdleThread]
  /\ UNCHANGED <<rwlatch_, shadow, owes, zero_order, lmVars>>
InitRace == InitHT
NextRace ==
  \/ \E t \in Threads : \E key \in RaceKeys, value \in Values : RaceInsert(t, key, value)
  \/ \E t \in Threads : RaceBucketInsert(t)
  \/ \E key \in RaceKeys, value \in Values : CanWLock(table_latch_) /\ HtInsert(key, value)
  \/ \E key \in RaceKeys, value \in Values : CanWLock(table_latch_) /\ HtRemove(key, value)
  \/ \E key \in RaceKeys : HtGetValue(key)
SpecRace == InitRace /\ [][NextRace]_vars

\* C21: concurrent calls leave what some sequential order of them leaves: two
\* threads that insert distinct pairs into the same bucket with room, at the
\* same time, both return true and get returns both pairs afterwards.  Stated
\* of the table that has never split: when no call is in progress, every pair
\* whose insert returned true (and was not removed since) is returned by get.
C21_ConcurrentInserts ==
  (ht_status = "ok" /\ next_page_id_ = 2 /\ \A t \in Threads : thread[t].pc = "idle") =>
    \A key \in RaceKeys : {v \in Values : <<key, v>> \in present} \subseteq GetResult(World, key)

(***************************************************************************)
(* SpecEvict: the hash table, called sequentially, over a small buffer     *)
(* pool that another client uses too.  The other client created its pages *)
(* before the table was constructed, and fetches and unpins them between   *)
(* the table's calls, which makes the replacer evict pages of the table    *)
(* (FetchPgImp writes a dirty victim back and drops a clean one).          *)
(***************************************************************************)
EvictKeys == 0..MaxEvictKey
OtherPages == 0..MaxOtherPage
EvictPageIds == 0..(MaxOtherPage + 2 * EvictPoolSize)
\* NewPage and UnpinPage(page_id, false) by the other client, n times
RECURSIVE OtherNewPages(_, _)
OtherNewPages(pool, n) ==
  IF n = 0 THEN pool
  ELSE LET r == NewPgImp(pool)
       IN OtherNewPages(UnpinPgImp(r.pool, r.page_id, FALSE).pool, n - 1)
InitEvict ==
  /\ \E w \in {NewHashTable(OtherNewPages(NewPool(EvictPoolSize, 1, 0, EvictPageIds),
                                           MaxOtherPage + 1))} :
       /\ pages_ = w.pool.pages
       /\ free_list_ = w.pool.free_list
       /\ page_table_ = w.pool.page_table
       /\ lru_list_ = w.pool.lru_list
       /\ next_page_id_ = w.pool.next_page_id
       /\ num_instances_ = w.pool.num_instances
       /\ instance_index_ = w.pool.instance_index
       /\ disk = w.pool.disk
       /\ ht_status = w.status
       /\ directory_page_id_ = w.directory_page_id
  /\ present = {}
  /\ NoLatches
  /\ last = HtCall("new", 0, 0, TRUE, <<>>)
  /\ shadow = <<>>
  /\ owes = <<>>
  /\ zero_order = <<>>
  /\ NoLockManager
\* FetchPage(page_id) and UnpinPage(page_id, false) by the other client
OtherFetch(page_id) ==
  /\ ht_status = "ok"
  /\ \E r \in {FetchPgImp(Pool, page_id)} :
       /\ r.frame # NoFrame
       /\ SetPool(UnpinPgImp(r.pool, page_id, FALSE).pool)
  /\ UNCHANGED <<ht_status, directory_page_id_, present, latchVars, histVars, lmVars>>
NextEvict ==
  \/ \E key \in EvictKeys, value \in Values : HtInsert(key, value)
  \/ \E key \in EvictKeys, value \in Values : HtRemove(key, value)
  \/ \E key \in EvictKeys : HtGetValue(key)
  \/ \E page_id \in OtherPages : OtherFetch(page_id)
SpecEvict == InitEvict /\ [][NextEvict]_vars

\* C34: a pair whose remove returned true (and that was not inserted again)
\* is not returned by get, whatever pages have been evicted and reloaded
\* since: get returns only pairs that are present.
C34_RemoveDurable ==
  ht_status = "ok" =>
    \A key \in EvictKeys :
      GetValue(World, key).w.status = "ok" =>
        GetResult(World, key) \subseteq {v \in Values : <<key, v>> \in present}

\* thread t is blocked in a latch call that thread u's hold keeps from being
\* granted
WaitsFor(t, u) ==
  /\ thread[t].pc \in DOMAIN LatchCalls
  /\ ~Granted(LatchAt(t, thread[t].pc), LatchCalls[thread[t].pc][2])
  /\ \/ LatchAt(t, thread[t].pc).writer = u
     \/ LatchCalls[thread[t].pc][2] = "WLock" /\ u \in LatchAt(t, thread[t].pc).readers
\* some threads wait for each other in a cycle
WaitCycle == \E S \in SUBSET Threads \ {{}} : \A t \in S : \E u \in S : WaitsFor(t, u)

\* C20: whatever the interleaving of concurrent get, insert (with or without
\* split) and remove (with or without merge) calls, no threads wait on the
\* table latch and the page latches in a cycle; a thread that holds a page
\* latch took the table latch first, and a thread requesting the table write
\* latch holds no page latch.
C20_LatchDeadlockFree ==
  /\ ~WaitCycle
  /\ \A t \in Threads : \A f \in LatchFrames : HoldsPage(t, f) => thread[t].first = "table"
  /\ \A t \in Threads : \A f \in LatchFrames :
       thread[t].pc \in {"SplitInsert.WLock", "Merge.WLock"} => ~HoldsPage(t, f)
\* a Merge holds the table write latch and waits for the read latch of a
\* page that a SplitInsert, past its WUnlock, still holds
C20_Witness ==
  \E t \in Threads : \E u \in Threads \ {t} :
    /\ thread[t].pc = "Merge.RLatch"
    /\ table_latch_.writer = t
    /\ WaitsFor(t, u)
    /\ thread[u].pc = "SplitInsert.WUnlatch"
    /\ HoldsPage(u, thread[u].image)

(***************************************************************************)
(* LockManager, on the record lm of lock_table_ and of the fields of the   *)
(* transactions (Transaction and TransactionManager::GetTransaction are    *)
(* collaborators: a transaction is its state, isolation level and two lock *)
(* sets, found by its id).  A request is [txn_id, lock_mode, granted].     *)
(* Every call runs with latch_ held up to its return, its throw or its     *)
(* cv.wait, so the model takes each such stretch as one step.              *)
(***************************************************************************)
Txns == 0..MaxTxn
Rids == 0..MaxRid
IsolationLevels == {"READ_UNCOMMITTED", "READ_COMMITTED", "REPEATABLE_READ"}

LockRequest(txn_id, lock_mode) ==
  [txn_id |-> txn_id, lock_mode |-> lock_mode, granted |-> FALSE]
LockRequestQueue == [request_queue |-> <<>>, upgrading |-> INVALID_TXN_ID]

IsSharedLocked(lm, txn_id, rid) == rid \in lm.shared_lock_set[txn_id]
IsExclusiveLocked(lm, txn_id, rid) == rid \in lm.exclusive_lock_set[txn_id]
SetState(lm, txn_id, state) == [lm EXCEPT !.txn_state[txn_id] = state]
Queue(lm, rid) == lm.lock_table[rid].request_queue
SetQueue(lm, rid, q) == [lm EXCEPT !.lock_table[rid].request_queue = q]
EmplaceBack(lm, rid, txn_id, lock_mode) ==
  SetQueue(lm, rid, Append(Queue(lm, rid), LockRequest(txn_id, lock_mode)))
\* positions of the requests of txn_id in q
Positions(q, txn_id) == {i \in 1..Len(q) : q[i].txn_id = txn_id}
HasRequest(q, txn_id) == Positions(q, txn_id) # {}
RemoveAt1(q, drop) ==
  LET keep == SelectSeq([i \in 1..Len(q) |-> i], LAMBDA i : i \notin drop)
  IN [n \in 1..Len(keep) |-> q[keep[n]]]
\* the find loop and request_queue.erase(it); callers hold a request
EraseFirst(q, txn_id) ==
  IF HasRequest(q, txn_id) THEN RemoveAt1(q, {Min(Positions(q, txn_id))}) ELSE q

\* what a check_func does to the transactions whose requests it erases
\* a wound that leaves rid in the victims' lock sets
Wound_KeepsLockSets(lm, rid, victims) ==
  [lm EXCEPT
     !.txn_state = [t \in DOMAIN @ |-> IF t \in victims THEN "ABORTED" ELSE @[t]]]

Wound(lm, rid, victims) ==
  [lm EXCEPT
     !.txn_state = [t \in DOMAIN @ |-> IF t \in victims THEN "ABORTED" ELSE @[t]],
     !.shared_lock_set =
        [t \in DOMAIN @ |-> IF t \in victims THEN @[t] \ {rid} ELSE @[t]],
     !.exclusive_lock_set =
        [t \in DOMAIN @ |-> IF t \in victims THEN @[t] \ {rid} ELSE @[t]]]

\* check_func of LockShared, without the test for older exclusive requests
SharedCheckFunc_IgnoreExclusive(lm, rid, txn_id) ==
  LET q == Queue(lm, rid)
      own == IF HasRequest(q, txn_id) THEN Min(Positions(q, txn_id)) ELSE Len(q) + 1
      killed == {i \in 1..(own - 1) :
                   q[i].lock_mode = "EXCLUSIVE" /\ q[i].txn_id > txn_id}
      q1 == [i \in 1..Len(q) |-> IF i = own THEN [q[i] EXCEPT !.granted = TRUE]
                                 ELSE q[i]]
  IN [lm |-> SetQueue(Wound(lm, rid, {q[i].txn_id : i \in killed}), rid,
                      RemoveAt1(q1, killed)),
      ret |-> TRUE]
\* check_func of LockShared that waits only behind granted exclusive requests
SharedCheckFunc_PastWaiters(lm, rid, txn_id) ==
  LET q == Queue(lm, rid)
      own == IF HasRequest(q, txn_id) THEN Min(Positions(q, txn_id)) ELSE Len(q) + 1
      killed == {i \in 1..(own - 1) :
                   q[i].lock_mode = "EXCLUSIVE" /\ q[i].txn_id > txn_id}
      is_continue == ~\E i \in 1..(own - 1) :
                        /\ q[i].lock_mode = "EXCLUSIVE" /\ q[i].txn_id < txn_id
                        /\ q[i].granted
      q1 == [i \in 1..Len(q) |->
               IF i = own THEN [q[i] EXCEPT !.granted = is_continue] ELSE q[i]]
  IN [lm |-> SetQueue(Wound(lm, rid, {q[i].txn_id : i \in killed}), rid,
                      RemoveAt1(q1, killed)),
      ret |-> IF own <= Len(q) THEN is_continue ELSE TRUE]
\* check_func of LockShared: walks the queue up to the caller's request
SharedCheckFunc(lm, rid, txn_id) ==
  LET q == Queue(lm, rid)
      own == IF HasRequest(q, txn_id) THEN Min(Positions(q, txn_id)) ELSE Len(q) + 1
      killed == {i \in 1..(own - 1) :
                   q[i].lock_mode = "EXCLUSIVE" /\ q[i].txn_id > txn_id}
      is_continue == ~\E i \in 1..(own - 1) :
                        q[i].lock_mode = "EXCLUSIVE" /\ q[i].txn_id < txn_id
      q1 == [i \in 1..Len(q) |->
               IF i = own THEN [q[i] EXCEPT !.granted = is_continue] ELSE q[i]]
  IN [lm |-> SetQueue(Wound(lm, rid, {q[i].txn_id : i \in killed}), rid,
                      RemoveAt1(q1, killed)),
      ret |-> IF own <= Len(q) THEN is_continue ELSE TRUE]

\* check_func of LockExclusive that wounds nobody: it waits behind any request
ExclusiveCheckFunc_NoWound(lm, rid, txn_id) ==
  LET q == Queue(lm, rid)
      mine == q # <<>> /\ q[1].txn_id = txn_id
  IN [lm |-> IF mine THEN SetQueue(lm, rid, [q EXCEPT ![1].granted = TRUE]) ELSE lm,
      ret |-> q = <<>> \/ mine]
\* check_func of LockExclusive: walks the queue up to the first request that
\* is the caller's (granted) or an older transaction's (wait)
ExclusiveCheckFunc(lm, rid, txn_id) ==
  LET q == Queue(lm, rid)
      stops == {i \in 1..Len(q) : q[i].txn_id <= txn_id}
      stop == IF stops = {} THEN Len(q) + 1 ELSE Min(stops)
      killed == 1..(stop - 1)
      mine == stop <= Len(q) /\ q[stop].txn_id = txn_id
      q1 == [i \in 1..Len(q) |->
               IF mine /\ i = stop THEN [q[i] EXCEPT !.granted = TRUE] ELSE q[i]]
  IN [lm |-> SetQueue(Wound(lm, rid, {q[i].txn_id : i \in killed}), rid,
                      RemoveAt1(q1, killed)),
      ret |-> stop > Len(q) \/ mine]
\* check_func of LockUpgrade: the same walk, written out again in the source
UpgradeCheckFunc(lm, rid, txn_id) == ExclusiveCheckFunc(lm, rid, txn_id)

\* how one stretch of a call ends: it returns ret, throws reason, waits
\* (a wait names the call whose loop it is in), or its thread hangs
Return(lm, ret) ==
  [lm |-> lm, outcome |-> "return", ret |-> ret, reason |-> "none"]
Throw(lm, reason) ==
  [lm |-> lm, outcome |-> "throw", ret |-> FALSE, reason |-> reason]
Wait(lm, in) == [lm |-> lm, outcome |-> "wait", ret |-> FALSE, reason |-> in]
Hang(lm) == [lm |-> lm, outcome |-> "hang", ret |-> FALSE, reason |-> "none"]

\* LockShared from one test of its while condition to its end
SharedLoop(lm, txn_id, rid) ==
  LET c == SharedCheckFunc(lm, rid, txn_id) IN
  IF ~c.ret /\ c.lm.txn_state[txn_id] # "ABORTED" THEN Wait(c.lm, "LockShared")
  ELSE IF c.lm.txn_state[txn_id] = "ABORTED" THEN Throw(c.lm, "DEADLOCK")
  ELSE Return([c.lm EXCEPT !.shared_lock_set[txn_id] = @ \cup {rid}], TRUE)

\* LockShared without the test of READ_UNCOMMITTED
LockShared_OfReadUncommitted(lm, txn_id, rid) ==
  IF lm.txn_state[txn_id] = "ABORTED" THEN Return(lm, FALSE)
  ELSE IF lm.txn_state[txn_id] = "SHRINKING"
  THEN Throw(SetState(lm, txn_id, "ABORTED"), "LOCK_ON_SHRINKING")
  ELSE IF IsSharedLocked(lm, txn_id, rid) \/ IsExclusiveLocked(lm, txn_id, rid)
  THEN Return(lm, TRUE)
  ELSE SharedLoop(EmplaceBack(SetState(lm, txn_id, "GROWING"), rid, txn_id,
                              "SHARED"),
                  txn_id, rid)

\* LockShared without the test of SHRINKING
LockShared_AfterShrinking(lm, txn_id, rid) ==
  IF lm.txn_state[txn_id] = "ABORTED" THEN Return(lm, FALSE)
  ELSE IF lm.isolation_level[txn_id] = "READ_UNCOMMITTED"
  THEN Throw(SetState(lm, txn_id, "ABORTED"), "LOCKSHARED_ON_READ_UNCOMMITTED")
  ELSE IF IsSharedLocked(lm, txn_id, rid) \/ IsExclusiveLocked(lm, txn_id, rid)
  THEN Return(lm, TRUE)
  ELSE SharedLoop(EmplaceBack(SetState(lm, txn_id, "GROWING"), rid, txn_id,
                              "SHARED"),
                  txn_id, rid)

LockShared(lm, txn_id, rid) ==
  IF lm.txn_state[txn_id] = "ABORTED" THEN Return(lm, FALSE)
  ELSE IF lm.txn_state[txn_id] = "SHRINKING"
  THEN Throw(SetState(lm, txn_id, "ABORTED"), "LOCK_ON_SHRINKING")
  ELSE IF lm.isolation_level[txn_id] = "READ_UNCOMMITTED"
  THEN Throw(SetState(lm, txn_id, "ABORTED"), "LOCKSHARED_ON_READ_UNCOMMITTED")
  ELSE IF IsSharedLocked(lm, txn_id, rid) \/ IsExclusiveLocked(lm, txn_id, rid)
  THEN Return(lm, TRUE)
  ELSE SharedLoop(EmplaceBack(SetState(lm, txn_id, "GROWING"), rid, txn_id,
                              "SHARED"),
                  txn_id, rid)

\* LockExclusive from one test of its while condition to its end
ExclusiveLoop(lm, txn_id, rid) ==
  LET c == ExclusiveCheckFunc(lm, rid, txn_id) IN
  IF ~c.ret /\ c.lm.txn_state[txn_id] # "ABORTED" THEN Wait(c.lm, "LockExclusive")
  ELSE IF c.lm.txn_state[txn_id] = "ABORTED" THEN Throw(c.lm, "DEADLOCK")
  ELSE Return([c.lm EXCEPT !.exclusive_lock_set[txn_id] = @ \cup {rid}], TRUE)

\* LockUpgrade from one test of its while condition to its end
UpgradeLoop(lm, txn_id, rid) ==
  LET c == UpgradeCheckFunc(lm, rid, txn_id) IN
  IF ~c.ret /\ c.lm.txn_state[txn_id] # "ABORTED" THEN Wait(c.lm, "LockUpgrade")
  ELSE IF c.lm.txn_state[txn_id] = "ABORTED" THEN Throw(c.lm, "DEADLOCK")
  ELSE Return([c.lm EXCEPT !.lock_table[rid].upgrading = INVALID_TXN_ID,
                           !.exclusive_lock_set[txn_id] = @ \cup {rid}],
              TRUE)

\* LockUpgrade without the test of upgrading_
LockUpgrade_WhileUpgrading(lm, txn_id, rid) ==
  IF lm.txn_state[txn_id] = "ABORTED" THEN Return(lm, FALSE)
  ELSE IF lm.txn_state[txn_id] = "SHRINKING"
  THEN Throw(SetState(lm, txn_id, "ABORTED"), "LOCK_ON_SHRINKING")
  ELSE IF IsExclusiveLocked(lm, txn_id, rid) THEN Return(lm, TRUE)
  ELSE
  LET lm1 == [lm EXCEPT !.lock_table[rid].upgrading = txn_id,
                        !.lock_table[rid].request_queue = EraseFirst(@, txn_id),
                        !.shared_lock_set[txn_id] = @ \ {rid}]
  IN UpgradeLoop(EmplaceBack(lm1, rid, txn_id, "EXCLUSIVE"), txn_id, rid)

LockUpgrade(lm, txn_id, rid) ==
  IF lm.txn_state[txn_id] = "ABORTED" THEN Return(lm, FALSE)
  ELSE IF lm.txn_state[txn_id] = "SHRINKING"
  THEN Throw(SetState(lm, txn_id, "ABORTED"), "LOCK_ON_SHRINKING")
  ELSE IF IsExclusiveLocked(lm, txn_id, rid) THEN Return(lm, TRUE)
  ELSE IF lm.lock_table[rid].upgrading # INVALID_TXN_ID
  THEN Return(SetState(lm, txn_id, "ABORTED"), FALSE)
  ELSE
  LET lm1 == [lm EXCEPT !.lock_table[rid].upgrading = txn_id,
                        !.lock_table[rid].request_queue = EraseFirst(@, txn_id),
                        !.shared_lock_set[txn_id] = @ \ {rid}]
  IN UpgradeLoop(EmplaceBack(lm1, rid, txn_id, "EXCLUSIVE"), txn_id, rid)

\* LockExclusive without the test of ABORTED
LockExclusive_OfAborted(lm, txn_id, rid) ==
  IF lm.txn_state[txn_id] = "SHRINKING"
  THEN Throw(SetState(lm, txn_id, "ABORTED"), "LOCK_ON_SHRINKING")
  ELSE IF IsSharedLocked(lm, txn_id, rid) THEN Hang(lm)
  ELSE IF IsExclusiveLocked(lm, txn_id, rid) THEN Return(lm, TRUE)
  ELSE ExclusiveLoop(EmplaceBack(SetState(lm, txn_id, "GROWING"), rid, txn_id,
                                 "EXCLUSIVE"),
                     txn_id, rid)

\* LockExclusive.  With a shared lock held it calls LockUpgrade while it
\* owns latch_; latch_ is a std::mutex, not a recursive one, so the lock
\* LockUpgrade starts with never returns: the thread hangs, latch_ held.
LockExclusive(lm, txn_id, rid) ==
  IF lm.txn_state[txn_id] = "ABORTED" THEN Return(lm, FALSE)
  ELSE IF lm.txn_state[txn_id] = "SHRINKING"
  THEN Throw(SetState(lm, txn_id, "ABORTED"), "LOCK_ON_SHRINKING")
  ELSE IF IsSharedLocked(lm, txn_id, rid) THEN Hang(lm)
  ELSE IF IsExclusiveLocked(lm, txn_id, rid) THEN Return(lm, TRUE)
  ELSE ExclusiveLoop(EmplaceBack(SetState(lm, txn_id, "GROWING"), rid, txn_id,
                                 "EXCLUSIVE"),
                     txn_id, rid)

\* Unlock that sets SHRINKING at any isolation level
Unlock_ShrinksAlways(lm, txn_id, rid) ==
  LET lm1 == IF lm.txn_state[txn_id] = "GROWING"
             THEN SetState(lm, txn_id, "SHRINKING") ELSE lm
  IN Return([lm1 EXCEPT
               !.lock_table[rid].request_queue = EraseFirst(@, txn_id),
               !.shared_lock_set[txn_id] = @ \ {rid},
               !.exclusive_lock_set[txn_id] = @ \ {rid}],
            TRUE)

Unlock(lm, txn_id, rid) ==
  LET lm1 == IF lm.txn_state[txn_id] = "GROWING"
                /\ lm.isolation_level[txn_id] = "REPEATABLE_READ"
             THEN SetState(lm, txn_id, "SHRINKING") ELSE lm
  IN Return([lm1 EXCEPT
               !.lock_table[rid].request_queue = EraseFirst(@, txn_id),
               !.shared_lock_set[txn_id] = @ \ {rid},
               !.exclusive_lock_set[txn_id] = @ \ {rid}],
            TRUE)

(***************************************************************************)
(* SpecLM: one lock manager and transactions 0..MaxTxn, one thread each.   *)
(* A transaction calls Unlock only for a rid it has locked, and            *)
(* LockUpgrade only for a rid it has locked or in a state that ends the    *)
(* call at once (without a request of the caller in the queue both erase   *)
(* end()).                                                                 *)
(***************************************************************************)
LM == [lock_table |-> lock_table_, txn_state |-> txn_state,
       isolation_level |-> isolation_level,
       shared_lock_set |-> shared_lock_set,
       exclusive_lock_set |-> exclusive_lock_set]
SetLM(lm) ==
  /\ lock_table_' = lm.lock_table
  /\ txn_state' = lm.txn_state
  /\ isolation_level' = lm.isolation_level
  /\ shared_lock_set' = lm.shared_lock_set
  /\ exclusive_lock_set' = lm.exclusive_lock_set

\* a thread outside cv.wait; a thread in the cv.wait of `call` for rid
NotWaiting == [call |-> "none", rid |-> 0]
WaitingIn(call, rid) == [call |-> call, rid |-> rid]
LmCall(op, txn_id, rid, r) ==
  [op |-> op, txn_id |-> txn_id, rid |-> rid, outcome |-> r.outcome,
   ret |-> r.ret, reason |-> r.reason]
\* latch_ can be taken and the transaction's thread is not inside a call
CanCall(txn_id) == latch_ = INVALID_TXN_ID /\ waiting[txn_id] = NotWaiting

\* the variables after the stretch r of a call `op` of txn_id for rid
Finish(op, txn_id, rid, r) ==
  /\ SetLM(r.lm)
  /\ latch_' = IF r.outcome = "hang" THEN txn_id ELSE latch_
  /\ waiting' = [waiting EXCEPT ![txn_id] =
       IF r.outcome = "wait" THEN WaitingIn(r.reason, rid) ELSE NotWaiting]
  /\ released' = IF op = "Unlock" THEN released \cup {txn_id} ELSE released
  /\ last' = LmCall(op, txn_id, rid, r)
  /\ UNCHANGED <<bpmVars, shadow, owes, zero_order, htVars>>

InitLM ==
  /\ NoBufferPool
  /\ lock_table_ = [rid \in Rids |-> LockRequestQueue]
  /\ latch_ = INVALID_TXN_ID
  /\ txn_state = [t \in Txns |-> "GROWING"]
  /\ isolation_level \in [Txns -> IsolationLevels]
  /\ shared_lock_set = [t \in Txns |-> {}]
  /\ exclusive_lock_set = [t \in Txns |-> {}]
  /\ waiting = [t \in Txns |-> NotWaiting]
  /\ released = {}
  /\ last = LmCall("new", INVALID_TXN_ID, 0, Return(LM, TRUE))

LmLockShared(txn_id, rid) ==
  /\ CanCall(txn_id)
  /\ Finish("LockShared", txn_id, rid, LockShared(LM, txn_id, rid))

LmLockExclusive(txn_id, rid) ==
  /\ CanCall(txn_id)
  /\ Finish("LockExclusive", txn_id, rid, LockExclusive(LM, txn_id, rid))

LmLockUpgrade(txn_id, rid) ==
  /\ CanCall(txn_id)
  /\ \/ IsSharedLocked(LM, txn_id, rid)
     \/ IsExclusiveLocked(LM, txn_id, rid)
     \/ txn_state[txn_id] \in {"ABORTED", "SHRINKING"}
  /\ Finish("LockUpgrade", txn_id, rid, LockUpgrade(LM, txn_id, rid))

LmUnlock(txn_id, rid) ==
  /\ CanCall(txn_id)
  /\ IsSharedLocked(LM, txn_id, rid) \/ IsExclusiveLocked(LM, txn_id, rid)
  /\ HasRequest(Queue(LM, rid), txn_id)
  /\ Finish("Unlock", txn_id, rid, Unlock(LM, txn_id, rid))

\* cv.wait returns (notified or not) and the while condition is tested again
LmWake(txn_id) ==
  /\ latch_ = INVALID_TXN_ID
  /\ waiting[txn_id] # NotWaiting
  /\ LET at == waiting[txn_id]
         r == CASE at.call = "LockShared" -> SharedLoop(LM, txn_id, at.rid)
                [] at.call = "LockExclusive" -> ExclusiveLoop(LM, txn_id, at.rid)
                [] at.call = "LockUpgrade" -> UpgradeLoop(LM, txn_id, at.rid)
     IN Finish(at.call, txn_id, at.rid, r)

NextLM ==
  \/ \E txn_id \in Txns, rid \in Rids : LmLockShared(txn_id, rid)
  \/ \E txn_id \in Txns, rid \in Rids : LmLockExclusive(txn_id, rid)
  \/ \E txn_id \in Txns, rid \in Rids : LmLockUpgrade(txn_id, rid)
  \/ \E txn_id \in Txns, rid \in Rids : LmUnlock(txn_id, rid)
  \/ \E txn_id \in Txns : LmWake(txn_id)

SpecLM == InitLM /\ [][NextLM]_vars

(***************************************************************************)
(* SpecLM2: the same lock manager and calls, with two rids, so that a       *)
(* transaction can hold a lock on one rid while it waits for another.       *)
(***************************************************************************)
Txns2 == 0..MaxTxn2
Rids2 == 0..MaxRid2
InitLM2 ==
  /\ NoBufferPool
  /\ lock_table_ = [rid \in Rids2 |-> LockRequestQueue]
  /\ latch_ = INVALID_TXN_ID
  /\ txn_state = [t \in Txns2 |-> "GROWING"]
  /\ isolation_level \in [Txns2 -> IsolationLevels]
  /\ shared_lock_set = [t \in Txns2 |-> {}]
  /\ exclusive_lock_set = [t \in Txns2 |-> {}]
  /\ waiting = [t \in Txns2 |-> NotWaiting]
  /\ released = {}
  /\ last = LmCall("new", INVALID_TXN_ID, 0, Return(LM, TRUE))
NextLM2 ==
  \/ \E txn_id \in Txns2, rid \in Rids2 : LmLockShared(txn_id, rid)
  \/ \E txn_id \in Txns2, rid \in Rids2 : LmLockExclusive(txn_id, rid)
  \/ \E txn_id \in Txns2, rid \in Rids2 : LmLockUpgrade(txn_id, rid)
  \/ \E txn_id \in Txns2, rid \in Rids2 : LmUnlock(txn_id, rid)
  \/ \E txn_id \in Txns2 : LmWake(txn_id)
SpecLM2 == InitLM2 /\ [][NextLM2]_vars

\* fair scheduling: a thread whose cv.wait can return does return (notify_all
\* or a spurious wake-up), and a transaction that holds a lock and can call
\* Unlock does so in the end
LmFairness ==
  /\ \A txn_id \in Txns : WF_vars(LmWake(txn_id))
  /\ \A txn_id \in Txns : \A rid \in Rids : WF_vars(LmUnlock(txn_id, rid))
\* the waiting of a call does not depend on the isolation levels: the fair
\* specification starts with every transaction READ_COMMITTED, which can
\* lock again after an Unlock
InitLMFair == InitLM /\ \A txn_id \in Txns : isolation_level[txn_id] = "READ_COMMITTED"
SpecLMFair == InitLMFair /\ [][NextLM]_vars /\ LmFairness

(***************************************************************************)
(* Claims about the lock manager                                           *)
(***************************************************************************)
GrantedIn(q, lock_mode) ==
  {i \in 1..Len(q) : q[i].granted /\ q[i].lock_mode = lock_mode}

\* C3: in every reachable state and for every rid, the request queue has at
\* most one granted exclusive request, and no granted shared request of
\* another transaction beside a granted exclusive one.
C3_LockCompatibility ==
  \A rid \in DOMAIN lock_table_ :
    LET q == lock_table_[rid].request_queue IN
    /\ Cardinality(GrantedIn(q, "EXCLUSIVE")) <= 1
    /\ \A x \in GrantedIn(q, "EXCLUSIVE") : \A s \in GrantedIn(q, "SHARED") :
         q[s].txn_id = q[x].txn_id

\* an exclusive request is granted while a younger transaction waits in
\* LockShared behind it in the same queue
C3_Witness ==
  \E rid \in DOMAIN lock_table_ :
    LET q == lock_table_[rid].request_queue IN
    \E x \in GrantedIn(q, "EXCLUSIVE") : \E i \in 1..Len(q) :
      /\ q[i].txn_id > q[x].txn_id
      /\ q[i].lock_mode = "SHARED"
      /\ ~q[i].granted
      /\ waiting[q[i].txn_id] = WaitingIn("LockShared", rid)
\* the step is the stretch of LockExclusive of txn_id for rid, from its
\* emplace_back or from a wake-up with its request still queued, that runs
\* check_func
WalksExclusive(txn_id, rid) ==
  /\ last'.op = "LockExclusive" /\ last'.txn_id = txn_id /\ last'.rid = rid
  /\ \/ /\ waiting[txn_id] = NotWaiting
        /\ txn_state[txn_id] = "GROWING"
        /\ rid \notin shared_lock_set[txn_id] \cup exclusive_lock_set[txn_id]
     \/ /\ waiting[txn_id] = WaitingIn("LockExclusive", rid)
        /\ HasRequest(lock_table_[rid].request_queue, txn_id)
\* the queue that check_func walks in that step
WalkedQueue(txn_id, rid) ==
  IF waiting[txn_id] = NotWaiting
  THEN Append(lock_table_[rid].request_queue, LockRequest(txn_id, "EXCLUSIVE"))
  ELSE lock_table_[rid].request_queue
\* the requests before the first one that is not of a younger transaction
Reached(q, txn_id) == {i \in 1..Len(q) : \A j \in 1..i : q[j].txn_id > txn_id}

\* C22: when T requests an exclusive lock on rid, every younger transaction
\* whose request precedes T's and is reached by T's walk is wounded (state
\* ABORTED, rid out of both its lock sets, its entry erased); when all the
\* preceding requests are younger T is granted without waiting, and T waits
\* only when the walk reaches a preceding request of an older transaction
\* (a T that wakes up wounded through another rid throws instead).
C22_WoundRule ==
  [][\A txn_id \in Txns : \A rid \in Rids : WalksExclusive(txn_id, rid) =>
       LET q == WalkedQueue(txn_id, rid)
           reached == Reached(q, txn_id)
           stop == Cardinality(reached) + 1
           q1 == lock_table_'[rid].request_queue
       IN /\ \A i \in reached :
               /\ txn_state'[q[i].txn_id] = "ABORTED"
               /\ rid \notin shared_lock_set'[q[i].txn_id]
               /\ rid \notin exclusive_lock_set'[q[i].txn_id]
          /\ Len(q1) = Len(q) - Cardinality(reached)
          /\ \A n \in 1..Len(q1) : q1[n].txn_id = q[n + Cardinality(reached)].txn_id
          /\ txn_state[txn_id] # "ABORTED" =>
               /\ q[stop].txn_id = txn_id =>
                    /\ last'.outcome = "return" /\ last'.ret
                    /\ q1[1] = [txn_id |-> txn_id, lock_mode |-> "EXCLUSIVE",
                                granted |-> TRUE]
                    /\ rid \in exclusive_lock_set'[txn_id]
               /\ last'.outcome = "wait" <=> q[stop].txn_id < txn_id
          /\ last'.outcome = "wait" => q[stop].txn_id < txn_id]_vars
\* transaction 0 has just been granted the exclusive lock at once, having
\* wounded the holder 1 and the waiter 2, which is still inside its cv.wait
C22_Witness ==
  /\ last.op = "LockExclusive" /\ last.txn_id = 0 /\ last.outcome = "return" /\ last.ret
  /\ \E rid \in Rids :
       /\ last.rid = rid
       /\ lock_table_[rid].request_queue = <<[txn_id |-> 0, lock_mode |-> "EXCLUSIVE", granted |-> TRUE]>>
       /\ waiting[2] = WaitingIn("LockExclusive", rid)
  /\ txn_state[1] = "ABORTED" /\ txn_state[2] = "ABORTED"

\* C23: under fair scheduling, with every lock released in the end, every
\* LockShared, LockExclusive and LockUpgrade call returns or throws in the
\* end: no thread stays in its cv.wait or blocked on latch_ for ever.
C23_LockCallsReturn ==
  \A txn_id \in Txns :
    (waiting[txn_id] # NotWaiting \/ latch_ = txn_id)
      ~> (waiting[txn_id] = NotWaiting /\ latch_ # txn_id)

LockCalls == {"LockShared", "LockExclusive", "LockUpgrade"}
\* the step is a LockShared, LockExclusive or LockUpgrade call of txn_id from
\* its start (not a wake-up inside one)
CallsLock(txn_id) ==
  last'.txn_id = txn_id /\ last'.op \in LockCalls /\ waiting[txn_id] = NotWaiting
\* the requests of txn_id in the queues of lm
RequestsOf(table, txn_id) ==
  [rid \in Rids |-> Cardinality(Positions(table[rid].request_queue, txn_id))]
\* the step adds no request of txn_id to a queue and no rid to its lock sets
AcquiresNothing(txn_id) ==
  /\ \A rid \in Rids :
       RequestsOf(lock_table_', txn_id)[rid] <= RequestsOf(lock_table_, txn_id)[rid]
  /\ shared_lock_set'[txn_id] \subseteq shared_lock_set[txn_id]
  /\ exclusive_lock_set'[txn_id] \subseteq exclusive_lock_set[txn_id]
\* the step is the Unlock that takes a GROWING REPEATABLE_READ txn_id to
\* SHRINKING, or is no such Unlock
ShrinksAtUnlock(txn_id) ==
  (/\ last'.op = "Unlock" /\ last'.txn_id = txn_id
   /\ isolation_level[txn_id] = "REPEATABLE_READ"
   /\ txn_state[txn_id] = "GROWING") => txn_state'[txn_id] = "SHRINKING"
\* the lock call of the step aborts txn_id with LOCK_ON_SHRINKING and leaves
\* the queues and the lock sets as they were
AbortsOnShrinking(txn_id) ==
  /\ txn_state'[txn_id] = "ABORTED"
  /\ last'.outcome = "throw" /\ last'.reason = "LOCK_ON_SHRINKING"
  /\ UNCHANGED <<lock_table_, shared_lock_set, exclusive_lock_set>>

\* C24 as stated: a GROWING REPEATABLE_READ transaction becomes SHRINKING at
\* its first Unlock, and every lock call it makes from then on sets it
\* ABORTED, throws LOCK_ON_SHRINKING and adds no request and no lock.
C24_EveryLaterCallThrows ==
  [][\A txn_id \in Txns :
       /\ ShrinksAtUnlock(txn_id)
       /\ (/\ CallsLock(txn_id)
           /\ isolation_level[txn_id] = "REPEATABLE_READ"
           /\ txn_id \in released) => AbortsOnShrinking(txn_id)]_vars
\* C24, amended: a GROWING REPEATABLE_READ transaction becomes SHRINKING at
\* its first Unlock; a lock call it makes while SHRINKING sets it ABORTED,
\* throws LOCK_ON_SHRINKING and changes no queue and no lock set; once it
\* has called Unlock it is never GROWING again, its lock calls do not return
\* true, and no step adds a request of it or a rid to its lock sets.
C24_TwoPhaseLocking ==
  [][\A txn_id \in Txns :
       /\ ShrinksAtUnlock(txn_id)
       /\ (CallsLock(txn_id) /\ txn_state[txn_id] = "SHRINKING")
            => AbortsOnShrinking(txn_id)
       /\ (isolation_level[txn_id] = "REPEATABLE_READ" /\ txn_id \in released) =>
            /\ txn_state[txn_id] # "GROWING" /\ txn_state'[txn_id] # "GROWING"
            /\ AcquiresNothing(txn_id)
            /\ CallsLock(txn_id) => ~last'.ret]_vars
\* a REPEATABLE_READ transaction that had unlocked has just been aborted by
\* its LockUpgrade for LOCK_ON_SHRINKING, while another transaction holds a
\* lock
C24_Witness ==
  /\ last.op = "LockUpgrade" /\ last.outcome = "throw"
  /\ last.reason = "LOCK_ON_SHRINKING"
  /\ last.txn_id \in released
  /\ isolation_level[last.txn_id] = "REPEATABLE_READ"
  /\ txn_state[last.txn_id] = "ABORTED"
  /\ \E txn_id \in Txns : shared_lock_set[txn_id] \cup exclusive_lock_set[txn_id] # {}

\* C25: a LockShared, LockExclusive or LockUpgrade call of an ABORTED
\* transaction returns false at once: it does not throw, wait or hang, and
\* every request queue, upgrading field, lock set and state stays as it was.
C25_AbortedCallsReturnFalse ==
  [][\A txn_id \in Txns : (CallsLock(txn_id) /\ txn_state[txn_id] = "ABORTED") =>
       /\ last'.outcome = "return" /\ ~last'.ret
       /\ UNCHANGED <<lock_table_, latch_, txn_state, shared_lock_set,
                      exclusive_lock_set, waiting>>]_vars
\* an ABORTED transaction has just had false from LockExclusive for a rid
\* that another transaction holds
C25_Witness ==
  /\ last.op = "LockExclusive" /\ last.outcome = "return" /\ ~last.ret
  /\ txn_state[last.txn_id] = "ABORTED"
  /\ \E i \in 1..Len(lock_table_[last.rid].request_queue) :
       /\ lock_table_[last.rid].request_queue[i].granted
       /\ lock_table_[last.rid].request_queue[i].txn_id # last.txn_id

\* C26: LockShared of a GROWING READ_UNCOMMITTED transaction throws
\* LOCKSHARED_ON_READ_UNCOMMITTED with the state already ABORTED, changes
\* no queue and no lock set, wounds nobody and does not wait.
C26_SharedOnReadUncommitted ==
  [][\A txn_id \in Txns :
       (/\ last'.op = "LockShared" /\ last'.txn_id = txn_id
        /\ waiting[txn_id] = NotWaiting
        /\ isolation_level[txn_id] = "READ_UNCOMMITTED"
        /\ txn_state[txn_id] = "GROWING") =>
          /\ last'.outcome = "throw"
          /\ last'.reason = "LOCKSHARED_ON_READ_UNCOMMITTED"
          /\ txn_state' = [txn_state EXCEPT ![txn_id] = "ABORTED"]
          /\ UNCHANGED <<lock_table_, latch_, shared_lock_set, exclusive_lock_set,
                         waiting>>]_vars
\* a READ_UNCOMMITTED transaction that holds an exclusive lock has just been
\* aborted by its LockShared for a rid, and still holds the lock
C26_Witness ==
  /\ last.op = "LockShared" /\ last.outcome = "throw"
  /\ last.reason = "LOCKSHARED_ON_READ_UNCOMMITTED"
  /\ isolation_level[last.txn_id] = "READ_UNCOMMITTED"
  /\ txn_state[last.txn_id] = "ABORTED"
  /\ last.rid \in exclusive_lock_set[last.txn_id]

\* txn_id holds the exclusive lock its LockUpgrade for rid ends with
Upgraded(txn_id, rid) ==
  LET q == lock_table_[rid].request_queue IN
  /\ waiting[txn_id] = NotWaiting
  /\ rid \in exclusive_lock_set[txn_id]
  /\ rid \notin shared_lock_set[txn_id]
  /\ Cardinality(Positions(q, txn_id)) = 1
  /\ \A i \in Positions(q, txn_id) : q[i].granted /\ q[i].lock_mode = "EXCLUSIVE"
  /\ lock_table_[rid].upgrading = INVALID_TXN_ID

\* C27: under fair scheduling, a LockUpgrade of a shared holder that found
\* no transaction upgrading on rid and waits returns true in the end, with
\* rid in its exclusive lock set and out of its shared lock set, its only
\* request in the queue a granted exclusive one, and upgrading reset.
C27_UpgradeCompletes ==
  \A txn_id \in Txns : \A rid \in Rids :
    (waiting[txn_id] = WaitingIn("LockUpgrade", rid)) ~> Upgraded(txn_id, rid)

\* the transactions inside a LockUpgrade for rid
InsideUpgrade(w, rid) == {txn_id \in Txns : w[txn_id] = WaitingIn("LockUpgrade", rid)}
\* the step is a LockUpgrade call for rid of the GROWING shared holder txn_id
\* that finds another transaction in upgrading
UpgradeConflict(txn_id, rid) ==
  /\ last'.op = "LockUpgrade" /\ last'.txn_id = txn_id /\ last'.rid = rid
  /\ waiting[txn_id] = NotWaiting
  /\ txn_state[txn_id] = "GROWING"
  /\ rid \in shared_lock_set[txn_id]
  /\ lock_table_[rid].upgrading \notin {INVALID_TXN_ID, txn_id}

OldestWaiter(rid, i) ==
  LET q == lock_table_[rid].request_queue IN
  /\ ~q[i].granted
  /\ waiting[q[i].txn_id] # NotWaiting /\ waiting[q[i].txn_id].rid = rid
  /\ \A k \in 1..(i - 1) : q[k].txn_id > q[i].txn_id
\* request j of the queue of rid came after request i, from a younger
\* transaction
YoungerLater(rid, i, j) ==
  LET q == lock_table_[rid].request_queue IN i < j /\ q[j].txn_id > q[i].txn_id
Conflicting(a, b) == a.lock_mode = "EXCLUSIVE" \/ b.lock_mode = "EXCLUSIVE"

\* C29 as stated: while a request of a transaction older than every request
\* before it is waiting, no request of a younger transaction that came after
\* it is granted.
C29_NoLaterGrantAtAll ==
  \A rid \in Rids :
    LET q == lock_table_[rid].request_queue IN
    \A i \in 1..Len(q) : \A j \in 1..Len(q) :
      (OldestWaiter(rid, i) /\ YoungerLater(rid, i, j)) => ~q[j].granted
\* C29, amended: while a request of a transaction older than every request
\* before it is waiting, no request of a younger transaction that came after
\* it and conflicts with it is granted (a shared request that came after a
\* waiting shared one may be granted first).
C29_GrantOrdering ==
  \A rid \in Rids :
    LET q == lock_table_[rid].request_queue IN
    \A i \in 1..Len(q) : \A j \in 1..Len(q) :
      (OldestWaiter(rid, i) /\ YoungerLater(rid, i, j) /\ Conflicting(q[i], q[j]))
        => ~q[j].granted
\* an exclusive request at the head of a queue is still waiting, and a
\* younger transaction that asked for a shared lock after it has run its
\* check_func again and still waits behind it
C29_Witness ==
  \E rid \in Rids :
    LET q == lock_table_[rid].request_queue IN
    /\ Len(q) >= 2
    /\ OldestWaiter(rid, 1) /\ YoungerLater(rid, 1, 2)
    /\ q[1].lock_mode = "EXCLUSIVE" /\ q[2].lock_mode = "SHARED"
    /\ waiting[q[2].txn_id] = WaitingIn("LockShared", rid)
    /\ last.op = "LockShared" /\ last.txn_id = q[2].txn_id /\ last.outcome = "wait"
    /\ \A txn_id \in Txns : rid \notin exclusive_lock_set[txn_id]

\* the step is an Unlock of txn_id for rid, which it holds
Unlocks(txn_id, rid) ==
  /\ last'.op = "Unlock" /\ last'.txn_id = txn_id /\ last'.rid = rid
  /\ rid \in shared_lock_set[txn_id] \cup exclusive_lock_set[txn_id]

\* C30: Unlock of a holder returns true, erases the holder's request from
\* the queue of rid and nothing else, takes rid out of both its lock sets,
\* and leaves every waiter of rid waiting with latch_ free, so that each can
\* run its check_func again (notify_all); the state goes from
\* GROWING to SHRINKING when the holder is REPEATABLE_READ, and no state
\* changes otherwise (READ_COMMITTED, READ_UNCOMMITTED, ABORTED, SHRINKING).
C30_Unlock ==
  [][\A txn_id \in Txns : \A rid \in Rids : Unlocks(txn_id, rid) =>
       LET q == lock_table_[rid].request_queue IN
       /\ last'.outcome = "return" /\ last'.ret
       /\ lock_table_' = [lock_table_ EXCEPT
                            ![rid].request_queue = EraseFirst(q, txn_id)]
       /\ Len(lock_table_'[rid].request_queue) = Len(q) - 1
       /\ shared_lock_set' = [shared_lock_set EXCEPT ![txn_id] = @ \ {rid}]
       /\ exclusive_lock_set' = [exclusive_lock_set EXCEPT ![txn_id] = @ \ {rid}]
       /\ waiting' = waiting /\ latch_' = INVALID_TXN_ID
       /\ txn_state' = [txn_state EXCEPT ![txn_id] =
            IF @ = "GROWING" /\ isolation_level[txn_id] = "REPEATABLE_READ"
            THEN "SHRINKING" ELSE @]]_vars
\* a READ_COMMITTED transaction, still GROWING, has just unlocked a rid that
\* another transaction is waiting for
C30_Witness ==
  /\ last.op = "Unlock" /\ last.outcome = "return" /\ last.ret
  /\ isolation_level[last.txn_id] = "READ_COMMITTED"
  /\ txn_state[last.txn_id] = "GROWING"
  /\ ~HasRequest(lock_table_[last.rid].request_queue, last.txn_id)
  /\ \E txn_id \in Txns : waiting[txn_id] # NotWaiting /\ waiting[txn_id].rid = last.rid

\* C31: upgrading of a queue names a transaction only while that transaction
\* is inside LockUpgrade for that rid; once the call has returned or thrown,
\* upgrading is INVALID_TXN_ID.
C31_UpgradingReset ==
  \A rid \in Rids :
    lock_table_[rid].upgrading # INVALID_TXN_ID
      => waiting[lock_table_[rid].upgrading] = WaitingIn("LockUpgrade", rid)


\* C32: a queue keeps no request of a transaction that has the rid in
\* neither lock set and is not waiting for it; in particular a call that
\* threw DEADLOCK has left no request of its transaction behind.
C32_NoStaleRequests ==
  \A rid \in DOMAIN lock_table_ :
    LET q == lock_table_[rid].request_queue IN
    \A i \in 1..Len(q) :
      \/ rid \in shared_lock_set[q[i].txn_id] \cup exclusive_lock_set[q[i].txn_id]
      \/ waiting[q[i].txn_id] # NotWaiting /\ waiting[q[i].txn_id].rid = rid


\* C33: LockExclusive of a GROWING transaction that holds the shared lock on
\* rid returns true, with rid in its exclusive lock set and out of its
\* shared lock set (or waits for that as an upgrade does): it does not hang
\* on latch_.
C33_ExclusiveUpgrades ==
  [][\A txn_id \in DOMAIN txn_state : \A rid \in DOMAIN lock_table_ :
       (/\ last'.op = "LockExclusive" /\ last'.txn_id = txn_id /\ last'.rid = rid
        /\ waiting[txn_id] = NotWaiting
        /\ txn_state[txn_id] = "GROWING"
        /\ rid \in shared_lock_set[txn_id]) =>
          /\ last'.outcome # "hang"
          /\ latch_' = INVALID_TXN_ID
          /\ last'.outcome = "return" =>
               /\ last'.ret
               /\ rid \in exclusive_lock_set'[txn_id]
               /\ rid \notin shared_lock_set'[txn_id]]_vars


\* the bucket page as the table would read it now
CurrentBucket(page_id) ==
  AsBucket(IF Resident(Pool, page_id) THEN PageData(World, page_id)
           ELSE ReadPage(disk, page_id))
\* the step is a Remove(key, value)
Removes(key, value) ==
  last'.op = "remove" /\ last'.key = key /\ last'.value = value
\* Remove(key, value) called now leaves the bucket of key empty, with a
\* local depth above 0 that is the local depth of its split image
MergeCase(key, value) ==
  LET dir == CurrentDirectory
      t == KeyToDirectoryIndex(key, dir)
      i == GetSplitImageIndex(dir, t)
  IN /\ IsEmpty(BucketRemove(CurrentBucket(GetBucketPageId(dir, t)), key, value).bucket)
     /\ GetLocalDepth(dir, t) > 0
     /\ GetLocalDepth(dir, t) = GetLocalDepth(dir, i)
\* the directory after the merge of the bucket of key into its split image
Merged(key) ==
  LET dir == CurrentDirectory
      dir1 == CurrentDirectory'
      t == KeyToDirectoryIndex(key, dir)
      i == GetSplitImageIndex(dir, t)
      target == GetBucketPageId(dir, t)
      image == GetBucketPageId(dir, i)
  IN /\ ht_status' = "ok"
     /\ ~Resident(Pool', target)
     /\ \A j \in 0..(DirSize(dir) - 1) :
          IF GetBucketPageId(dir, j) \in {target, image}
          THEN /\ GetBucketPageId(dir1, j) = image
               /\ GetLocalDepth(dir1, j) = GetLocalDepth(dir, i) - 1
          ELSE /\ GetBucketPageId(dir1, j) = GetBucketPageId(dir, j)
               /\ GetLocalDepth(dir1, j) = GetLocalDepth(dir, j)

\* C35: a Remove that leaves its bucket empty, with a local depth above 0
\* equal to that of the split image, deletes the bucket page (DeletePage
\* returns true) and points every slot of the target or of the image to the
\* image page, with the local depth one less; any other Remove leaves the
\* directory as it was.
C35_Merge ==
  [][\A key \in Keys : \A value \in Values : Removes(key, value) =>
       IF MergeCase(key, value) THEN Merged(key)
       ELSE CurrentDirectory' = CurrentDirectory]_vars


\* C36: the Remove of the last pair present leaves the global depth 0,
\* and after a Remove that merged the global depth is minimal (the
\* directory cannot shrink: the depth is 0 or a live slot has the global
\* depth as its local depth).
C36_DirectoryShrinksBack ==
  [][\A key \in Keys : \A value \in Values : Removes(key, value) =>
       /\ present = {<<key, value>>} =>
            ht_status' = "ok" /\ GetGlobalDepth(CurrentDirectory') = 0
       /\ (MergeCase(key, value) /\ ht_status' = "ok") =>
            ~CanShrink(CurrentDirectory')]_vars


\* Insert(key, value) called now finds the bucket of key full and calls
\* SplitInsert, whose asserts on the depths hold
SplitsAt(key) ==
  LET dir0 == CurrentDirectory
      s == KeyToDirectoryIndex(key, dir0)
  IN /\ ht_status = "ok"
     /\ IsFull(CurrentBucket(GetBucketPageId(dir0, s)))
     /\ GetLocalDepth(dir0, s) = GetGlobalDepth(dir0) =>
          IncrGlobalDepthInBounds(dir0)
\* the directory of that SplitInsert when its four loops have run, the image
\* being the page NewPage allocates
SplitDirectory(key) ==
  LET dir0 == CurrentDirectory
      s == KeyToDirectoryIndex(key, dir0)
      dir1 == IF GetLocalDepth(dir0, s) = GetGlobalDepth(dir0)
              THEN IncrGlobalDepth(dir0) ELSE dir0
      dir2 == IncrLocalDepth(dir1, s)
  IN SplitRepoint(dir2, s, GetBucketPageId(dir2, s), next_page_id_)
\* the split and image buckets when the saved pairs are inserted again
SplitBuckets(key) ==
  LET dir0 == CurrentDirectory
      split_id == GetBucketPageId(dir0, KeyToDirectoryIndex(key, dir0))
  IN Redistribute(GetArrayCopy(CurrentBucket(split_id)), 1,
                  SplitDirectory(key), split_id, next_page_id_,
                  Clear(CurrentBucket(split_id)), ZeroBucket)
\* the readable slots of bucket that hold the pair
SlotsHolding(bucket, pair) ==
  {i \in BucketSlots : IsReadable(bucket, i)
                       /\ KeyAt(bucket, i) = pair[1]
                       /\ ValueAt(bucket, i) = pair[2]}

\* C37: when SplitInsert has re-pointed the directory for the bucket at
\* index s, now of local depth d, every live slot with the low d bits of s
\* points to the split page, every live slot with the low d bits of the
\* split image index points to the new image page, all these slots have
\* local depth d, and every pair of the bucket before the split is stored
\* exactly once, in the bucket its hash is mapped to.
C37_SplitRepointing ==
  \A key \in Keys : SplitsAt(key) =>
    LET dir0 == CurrentDirectory
        s == KeyToDirectoryIndex(key, dir0)
        split_id == GetBucketPageId(dir0, s)
        dir == SplitDirectory(key)
        d == GetLocalDepth(dir, s)
        mask == Pow2(d) - 1
        moved == SplitBuckets(key)
    IN /\ \A i \in 0..(DirSize(dir) - 1) :
            /\ BitAnd(i, mask) = BitAnd(s, mask) =>
                 /\ GetBucketPageId(dir, i) = split_id
                 /\ GetLocalDepth(dir, i) = d
            /\ BitAnd(i, mask) = BitAnd(BitFlip(s, d - 1), mask) =>
                 /\ GetBucketPageId(dir, i) = next_page_id_
                 /\ GetLocalDepth(dir, i) = d
       /\ moved.ok
       /\ \A i \in 1..Len(GetArrayCopy(CurrentBucket(split_id))) :
            LET pair == GetArrayCopy(CurrentBucket(split_id))[i]
                to_split == KeyToPageId(pair[1], dir) = split_id
            IN /\ Cardinality(SlotsHolding(moved.split_bucket, pair))
                    = IF to_split THEN 1 ELSE 0
               /\ Cardinality(SlotsHolding(moved.image_bucket, pair))
                    = IF to_split THEN 0 ELSE 1


(***************************************************************************)
(* SpecBucket: one HashTableBucketPage of MaxBucketSlot + 1 slots, in the  *)
(* data of a page a client holds pinned in frame 0, and that client's      *)
(* calls of Insert, Remove and Clear.                                      *)
(***************************************************************************)
BucketPageSlots == 0..MaxBucketSlot
BucketKeys == 0..MaxBucketKey
BucketValues == 1..MaxBucketValue
\* the bucket page of SpecBucket
BucketPage == pages_[0].data

\* the page as NewPage hands it out, zeroed
InitBucket ==
  /\ pages_ = [f \in {0} |->
                 [page_id |-> 0, pin_count |-> 1, is_dirty |-> FALSE,
                  data |-> [kind |-> "bucket",
                            occupied |-> [i \in BucketPageSlots |-> FALSE],
                            readable |-> [i \in BucketPageSlots |-> FALSE],
                            array |-> [i \in BucketPageSlots |-> ZeroMapping]]]]
  /\ free_list_ = <<>>
  /\ page_table_ = <<>>
  /\ lru_list_ = <<>>
  /\ next_page_id_ = 1
  /\ num_instances_ = 1
  /\ instance_index_ = 0
  /\ disk = <<>>
  /\ shadow = <<>>
  /\ owes = <<>>
  /\ zero_order = <<>>
  /\ directory_page_id_ = INVALID_PAGE_ID
  /\ ht_status = "ok"
  /\ present = {}
  /\ NoLatches
  /\ NoLockManager
  /\ last = HtCall("new", 0, 0, TRUE, <<>>)

BucketUnchanged ==
  UNCHANGED <<free_list_, page_table_, lru_list_, next_page_id_,
              num_instances_, instance_index_, disk, shadow, owes,
              zero_order, htVars, lmVars>>

PageInsert(key, value) ==
  /\ \E r \in {BucketInsert(BucketPage, key, value)} :
       /\ pages_' = [pages_ EXCEPT ![0].data = r.bucket]
       /\ last' = HtCall("bucket_insert", key, value, r.ret, <<>>)
  /\ BucketUnchanged

PageRemove(key, value) ==
  /\ \E r \in {BucketRemove(BucketPage, key, value)} :
       /\ pages_' = [pages_ EXCEPT ![0].data = r.bucket]
       /\ last' = HtCall("bucket_remove", key, value, r.ret, <<>>)
  /\ BucketUnchanged

PageClear ==
  /\ pages_' = [pages_ EXCEPT ![0].data = Clear(BucketPage)]
  /\ last' = HtCall("bucket_clear", 0, 0, TRUE, <<>>)
  /\ BucketUnchanged

NextBucket ==
  \/ \E key \in BucketKeys : \E value \in BucketValues : PageInsert(key, value)
  \/ \E key \in BucketKeys : \E value \in BucketValues : PageRemove(key, value)
  \/ PageClear

SpecBucket == InitBucket /\ [][NextBucket]_vars

\* readable implies occupied, the occupied bits are a prefix of the slots,
\* IsEmpty and IsFull say what the readable bits say, no pair is readable
\* in two slots
BucketInvariants(bucket) ==
  LET slots == DOMAIN bucket.occupied IN
  /\ \A i \in slots : bucket.readable[i] => bucket.occupied[i]
  /\ \A i \in slots : bucket.occupied[i] =>
       \A j \in 0..(i - 1) : bucket.occupied[j]
  /\ IsEmpty(bucket) <=> \A i \in slots : ~bucket.readable[i]
  /\ IsFull(bucket) <=> \A i \in slots : bucket.readable[i]
  /\ \A i, j \in slots :
       (bucket.readable[i] /\ bucket.readable[j]
          /\ bucket.array[i] = bucket.array[j]) => i = j

\* C38: after every Insert, Remove and Clear of a bucket page readable[i]
\* implies occupied[i], the occupied bits form a prefix of the slot array,
\* IsEmpty holds exactly when no readable bit is set, IsFull exactly when
\* all are, and no pair is stored in two readable slots; a Remove that
\* returns true clears one readable bit and no occupied bit, an Insert that
\* returns true fills the first slot that was not readable.
C38_BucketInvariants ==
  [][LET old == BucketPage
         new == pages_'[0].data
         slots == DOMAIN old.occupied
     IN /\ BucketInvariants(new)
        /\ (last'.op = "bucket_remove" /\ last'.ret) =>
             /\ new.occupied = old.occupied
             /\ \E i \in slots :
                  /\ old.readable[i] /\ old.array[i] = <<last'.key, last'.value>>
                  /\ new.readable = [old.readable EXCEPT ![i] = FALSE]
        /\ (last'.op = "bucket_insert" /\ last'.ret) =>
             \E i \in slots :
               /\ ~old.readable[i]
               /\ \A j \in 0..(i - 1) : old.readable[j]
               /\ new.readable = [old.readable EXCEPT ![i] = TRUE]
               /\ new.occupied = [old.occupied EXCEPT ![i] = TRUE]
               /\ new.array = [old.array EXCEPT ![i] = <<last'.key, last'.value>>]]_vars
\* an Insert has put a pair in the tombstone a Remove left before two slots
\* that are still readable, and the bucket is full
C38_Witness ==
  /\ last.op = "bucket_insert" /\ last.ret
  /\ IsFull(BucketPage)
  /\ BucketPage.array[0] = <<last.key, last.value>>
  /\ BucketPage.array[0] # BucketPage.array[1]
  /\ BucketPage.array[0] # BucketPage.array[2]


\* the positions of txn_id's requests in the queue of rid
EntriesOf(txn_id, rid) ==
  {i \in 1..Len(lock_table_[rid].request_queue) :
     lock_table_[rid].request_queue[i].txn_id = txn_id}
\* the queue of rid holds one request of txn_id, granted in lock_mode
OneGranted(txn_id, rid, lock_mode) ==
  \E i \in EntriesOf(txn_id, rid) :
    /\ EntriesOf(txn_id, rid) = {i}
    /\ lock_table_[rid].request_queue[i].lock_mode = lock_mode
    /\ lock_table_[rid].request_queue[i].granted

\* C39: in every state, a rid in a transaction's exclusive lock set has in
\* its queue exactly one request of the transaction, a granted exclusive
\* one, a rid in its shared lock set exactly one, a granted shared one, and
\* no transaction has two requests in one queue.
C39_LockSetsAgree ==
  \A txn_id \in DOMAIN txn_state : \A rid \in DOMAIN lock_table_ :
    /\ Cardinality(EntriesOf(txn_id, rid)) <= 1
    /\ rid \in exclusive_lock_set[txn_id] => OneGranted(txn_id, rid, "EXCLUSIVE")
    /\ rid \in shared_lock_set[txn_id] => OneGranted(txn_id, rid, "SHARED")

\* an upgrade has completed: the transaction holds rid exclusively through
\* the one request it has, while a request of another transaction waits
C39_Witness ==
  /\ last.op = "LockUpgrade" /\ last.outcome = "return" /\ last.ret
  /\ last.rid \in exclusive_lock_set[last.txn_id]
  /\ OneGranted(last.txn_id, last.rid, "EXCLUSIVE")
  /\ \E i \in 1..Len(lock_table_[last.rid].request_queue) :
       ~lock_table_[last.rid].request_queue[i].granted


\* the requests of the transactions other than txn_id in the queue q
RequestsOfOthers(q, txn_id) == SelectSeq(q, LAMBDA e : e.txn_id # txn_id)

\* C40: a step of a transaction that is ABORTED sets no other transaction's
\* state to ABORTED and leaves the other transactions' requests and lock
\* sets as they are, and when the step is the wake-up of its wait loop the
\* call fails with DEADLOCK.
C40_OnlyLiveRequestersWound ==
  [][\A txn_id \in DOMAIN txn_state :
       (last'.txn_id = txn_id /\ txn_state[txn_id] = "ABORTED") =>
         /\ \A t \in DOMAIN txn_state \ {txn_id} :
              /\ txn_state'[t] = txn_state[t]
              /\ shared_lock_set'[t] = shared_lock_set[t]
              /\ exclusive_lock_set'[t] = exclusive_lock_set[t]
         /\ \A rid \in DOMAIN lock_table_ :
              RequestsOfOthers(lock_table_'[rid].request_queue, txn_id)
                = RequestsOfOthers(lock_table_[rid].request_queue, txn_id)
         /\ waiting[txn_id] # NotWaiting =>
              last'.outcome = "throw" /\ last'.reason = "DEADLOCK"]_vars

=============================================================================
